---- MODULE Spec2Model ----
(***************************************************************************)
(* Monte Carlo packet transport of tardis (montecarlo_numba): the driver   *)
(* montecarlo_main_loop, the per-packet state machine single_packet_loop,  *)
(* and the transport kernels of r_packet.py.                               *)
(*                                                                         *)
(* Arithmetic.  The code computes in float64.  The model computes in      *)
(* integers: lengths, frequencies, energies and optical depths are whole   *)
(* numbers of a model unit, a quotient is rounded down (\div), and a       *)
(* Doppler factor 1 - mu*r/(c*t) is carried as its numerator over the      *)
(* fixed denominator c*t.  Direction cosines are whole numbers, so the     *)
(* packets of the model fly radially (mu = 1 or mu = -1); for these the    *)
(* square roots of the geometry are exact.                                 *)
(***************************************************************************)
EXTENDS Integers, Sequences, FiniteSets, TLC

(***************************************************************************)
(* Bounds of the model.                                                    *)
(***************************************************************************)
NoOfPackets == 2
MaxInteractions == 2
MaxIterations == 2

(***************************************************************************)
(* Program constants (r_packet.py), in model units.                        *)
(***************************************************************************)
C_SPEED_OF_LIGHT == 10
MISS_DISTANCE == 1000000
SIGMA_THOMSON == 1
\* CLOSE_LINE_THRESHOLD = 1e-7, carried as its inverse
CLOSE_LINE_THRESHOLD_INV == 10000000

IN_PROCESS == "IN_PROCESS"
EMITTED == "EMITTED"
REABSORBED == "REABSORBED"
PacketStatus == {IN_PROCESS, EMITTED, REABSORBED}

BOUNDARY == "BOUNDARY"
LINE == "LINE"
ESCATTERING == "ESCATTERING"
CONTINUUM_PROCESS == "CONTINUUM_PROCESS"
InteractionType == {BOUNDARY, LINE, ESCATTERING}

(***************************************************************************)
(* Inputs of one run: the storage model handed to montecarlo_main_loop.    *)
(***************************************************************************)
MaxThreads == 2
Workers == 0 .. (MaxThreads - 1)
Packets == 0 .. (NoOfPackets - 1)

\* the model and plasma arrays and the packet directions of the run; a run
\* reads them and never writes them
VARIABLES
    no_of_shells,           \* len(numba_model.r_inner)
    electron_density,       \* numba_plasma.electron_density[shell]
    tau_sobolev,            \* numba_plasma.tau_sobolev[line][shell]
    packet_mus              \* storage_model.packet_mus[i]

time_explosion == 10
Shells == 0 .. (no_of_shells - 1)
r_inner == [s \in Shells |-> 10 + 10 * s]
r_outer == [s \in Shells |-> 20 + 10 * s]

\* line list, sorted in descending frequency
line_list_nu == <<900, 800>>
no_of_lines == Len(line_list_nu)

\* the packets of the source: co-moving frequency and energy
packet_nus == [i \in Packets |-> CASE i % 3 = 0 -> 950 [] i % 3 = 1 -> 900 [] OTHER -> 860]
packet_energy == 90

Abs(x) == IF x < 0 THEN 0 - x ELSE x

\* np.sqrt on the integer grid: the root rounded down
Sqrt(x) == CHOOSE k \in 0 .. x : k * k <= x /\ (k + 1) * (k + 1) > x

(***************************************************************************)
(* The pseudo-random generator of a worker thread.  Its state is a number  *)
(* modulo RngPeriod; a draw reads the state and advances it.               *)
(***************************************************************************)
RngPeriod == 5
RngStates == 0 .. (RngPeriod - 1)
RngStep(s) == (s + 1) % RngPeriod
\* np.random.exponential(): the optical depth to the next event
RandomExponential(s) == CASE s = 0 -> 2 [] s \in {2, 4} -> 12 [] OTHER -> 50
\* get_random_mu(): 2 * random() - 1
get_random_mu(s) == IF s \in {1, 4} THEN 0 - 1 ELSE 1

(***************************************************************************)
(* Frame transformations and distances (r_packet.py).                      *)
(***************************************************************************)
nu_line_of(l) == line_list_nu[l + 1]
tau_sobolev_of(l, s) == tau_sobolev[l + 1][s]

\* denominator of every Doppler factor: beta = (r / t) / c = r / (c * t)
DopplerDen(t) == t * C_SPEED_OF_LIGHT

\* 1.0 - mu * beta, as its numerator over DopplerDen(t)
get_doppler_factor(r, mu, t) == DopplerDen(t) - mu * r

\* x * doppler_factor and x * (1 / doppler_factor)
TimesDoppler(x, r, mu, t) == (x * get_doppler_factor(r, mu, t)) \div DopplerDen(t)
TimesInverseDoppler(x, r, mu, t) == (x * DopplerDen(t)) \div get_doppler_factor(r, mu, t)

\* faulty variant of calculate_distance_boundary: an inward ray is followed to
\* its far intersection with the inner sphere
DistanceBoundaryFarIntersection(r, mu, ri, ro) ==
    IF mu > 0
    THEN <<Sqrt(ro * ro + ((mu * mu - 1) * r * r)) - (r * mu), 1>>
    ELSE LET check == ri * ri + (r * r * (mu * mu - 1))
         IN  IF check >= 0
             THEN <<(0 - r) * mu + Sqrt(check), 0 - 1>>
             ELSE <<Sqrt(ro * ro + ((mu * mu - 1) * r * r)) - (r * mu), 1>>

\* returns <<distance, delta_shell>>
calculate_distance_boundary(r, mu, ri, ro) ==
    IF mu > 0
    THEN <<Sqrt(ro * ro + ((mu * mu - 1) * r * r)) - (r * mu), 1>>
    ELSE LET check == ri * ri + (r * r * (mu * mu - 1))
         IN  IF check >= 0
             THEN <<(0 - r) * mu - Sqrt(check), 0 - 1>>
             ELSE <<Sqrt(ro * ro + ((mu * mu - 1) * r * r)) - (r * mu), 1>>

\* np.abs(nu_diff / comov_nu) < CLOSE_LINE_THRESHOLD
CloseLine(nu_diff, comov_nu) ==
    Abs(nu_diff) <= (Abs(comov_nu) - 1) \div CLOSE_LINE_THRESHOLD_INV

\* faulty variant of calculate_distance_line: a difference below zero is
\* never taken as zero
DistanceLineNoClampBelow(nu, comov_nu, nu_line, t) ==
    IF nu_line = 0
    THEN [raised |-> FALSE, distance |-> MISS_DISTANCE]
    ELSE LET nu_diff == comov_nu - nu_line
         IN  IF nu_diff >= 0
             THEN [raised |-> FALSE,
                   distance |-> IF CloseLine(nu_diff, comov_nu) THEN 0
                                ELSE (nu_diff * C_SPEED_OF_LIGHT * t) \div nu]
             ELSE [raised |-> TRUE, distance |-> 0]

\* returns [raised, distance]; raised stands for MonteCarloException
calculate_distance_line(nu, comov_nu, nu_line, t) ==
    IF nu_line = 0
    THEN [raised |-> FALSE, distance |-> MISS_DISTANCE]
    ELSE LET nu_diff0 == comov_nu - nu_line
             nu_diff == IF CloseLine(nu_diff0, comov_nu) THEN 0 ELSE nu_diff0
         IN  IF nu_diff >= 0
             THEN [raised |-> FALSE,
                   distance |-> (nu_diff * C_SPEED_OF_LIGHT * t) \div nu]
             ELSE [raised |-> TRUE, distance |-> 0]

\* faulty variant of calculate_distance_electron: no electrons, no distance
DistanceElectronZeroDensity(ne, tau_event) ==
    IF ne = 0 THEN 0 ELSE tau_event \div (ne * SIGMA_THOMSON)

\* faulty variant of calculate_tau_electron: the distance is left out
TauElectronWithoutDistance(ne, distance) == ne * SIGMA_THOMSON

\* tau_event / (electron_density * SIGMA_THOMSON); with electron_density = 0
\* the float64 quotient of a positive tau_event is +inf, which is above
\* every distance and is carried as a number above MISS_DISTANCE
calculate_distance_electron(ne, tau_event) ==
    IF ne = 0 THEN 2 * MISS_DISTANCE ELSE tau_event \div (ne * SIGMA_THOMSON)

calculate_tau_electron(ne, distance) == ne * SIGMA_THOMSON * distance

(***************************************************************************)
(* RPacket (r_packet.py).                                                  *)
(***************************************************************************)
\* __init__ does not assign next_line_id; initialize_line_id writes it before
\* anything reads it
RPacket(r, mu, nu, energy, index) ==
    [r |-> r, mu |-> mu, nu |-> nu, energy |-> energy,
     current_shell_id |-> 0, status |-> IN_PROCESS, index |-> index,
     next_line_id |-> 0]

\* faulty variant of SearchSortedReversed: the insertion point to the right of
\* lines equal to v
SearchSortedReversedRight(v) ==
    Cardinality({l \in 0 .. (no_of_lines - 1) : nu_line_of(l) <= v})

\* np.searchsorted(line_list_nu[::-1], v): the number of lines below v
SearchSortedReversed(v) ==
    Cardinality({l \in 0 .. (no_of_lines - 1) : nu_line_of(l) < v})

initialize_line_id(p, t) ==
    LET comov_nu == TimesDoppler(p.nu, p.r, p.mu, t)
    IN  [p EXCEPT !.next_line_id = no_of_lines - SearchSortedReversed(comov_nu)]

(***************************************************************************)
(* trace_packet (r_packet.py).  The for loop over the lines is the         *)
(* recursion TraceLines; its else clause is TraceNoBreak.                  *)
(***************************************************************************)
TraceResult(distance, interaction_type, delta_shell, next_line_id, raised) ==
    [distance |-> distance, interaction_type |-> interaction_type,
     delta_shell |-> delta_shell, next_line_id |-> next_line_id,
     raised |-> raised]

\* faulty variant of TraceNoBreak: the line index is advanced past the last line
\* whether or not the loop stopped on the last line
TraceNoBreakAlwaysAdvances(cur_line_id, distance_electron, distance_boundary, delta_shell) ==
    IF distance_electron < distance_boundary
    THEN TraceResult(distance_electron, ESCATTERING, delta_shell,
                     cur_line_id + 1, FALSE)
    ELSE TraceResult(distance_boundary, BOUNDARY, delta_shell,
                     cur_line_id + 1, FALSE)

\* faulty variant of TraceNoBreak: the electron distance is taken without
\* comparing it with the boundary distance
TraceNoBreakIgnoresBoundary(cur_line_id, distance_electron, distance_boundary, delta_shell) ==
    TraceResult(distance_electron, ESCATTERING, delta_shell,
                IF cur_line_id = no_of_lines - 1 THEN cur_line_id + 1
                ELSE cur_line_id, FALSE)

\* faulty variant of TraceNoBreak: an electron distance equal to the boundary
\* distance scatters
TraceNoBreakNonStrict(cur_line_id, distance_electron, distance_boundary, delta_shell) ==
    LET last == IF cur_line_id = no_of_lines - 1 THEN cur_line_id + 1
                ELSE cur_line_id
    IN  IF distance_electron <= distance_boundary
        THEN TraceResult(distance_electron, ESCATTERING, delta_shell, last, FALSE)
        ELSE TraceResult(distance_boundary, BOUNDARY, delta_shell, last, FALSE)

\* the else clause of the for loop; cur_line_id is the loop variable as the
\* loop left it (start_line_id when the loop body never ran)
TraceNoBreak(cur_line_id, distance_electron, distance_boundary, delta_shell) ==
    LET last == IF cur_line_id = no_of_lines - 1 THEN cur_line_id + 1
                ELSE cur_line_id
    IN  IF distance_electron < distance_boundary
        THEN TraceResult(distance_electron, ESCATTERING, delta_shell, last, FALSE)
        ELSE TraceResult(distance_boundary, BOUNDARY, delta_shell, last, FALSE)

RECURSIVE TraceLines(_, _, _, _, _, _, _, _)
TraceLines(p, t, cur_line_id, tau_event, tau_before, distance_electron, distance_boundary, delta_shell) ==
    IF cur_line_id >= no_of_lines
    THEN TraceNoBreak(IF p.next_line_id < no_of_lines THEN no_of_lines - 1
                      ELSE p.next_line_id,
                      distance_electron, distance_boundary, delta_shell)
    ELSE
    LET s == p.current_shell_id
        ne == electron_density[s]
        comov_nu == TimesDoppler(p.nu, p.r, p.mu, t)
        tau_trace_line_combined == tau_before + tau_sobolev_of(cur_line_id, s)
        dl == calculate_distance_line(p.nu, comov_nu, nu_line_of(cur_line_id), t)
        distance_trace == dl.distance
        tau_trace_combined ==
            tau_trace_line_combined + calculate_tau_electron(ne, distance_trace)
    IN  IF dl.raised
        THEN TraceResult(0, BOUNDARY, delta_shell, p.next_line_id, TRUE)
        ELSE IF (distance_boundary <= distance_trace)
                /\ (distance_boundary <= distance_electron)
        THEN TraceResult(distance_boundary, BOUNDARY, delta_shell,
                         cur_line_id, FALSE)
        ELSE IF (distance_electron < distance_trace)
                /\ (distance_electron < distance_boundary)
        THEN TraceResult(distance_electron, ESCATTERING, delta_shell,
                         cur_line_id, FALSE)
        ELSE IF tau_trace_combined > tau_event
        THEN TraceResult(distance_trace, LINE, delta_shell, cur_line_id, FALSE)
        ELSE TraceLines(p, t, cur_line_id + 1, tau_event,
                        tau_trace_line_combined,
                        calculate_distance_electron(
                            ne, tau_event - tau_trace_line_combined),
                        distance_boundary, delta_shell)

\* tau_event is the draw of np.random.exponential()
trace_packet(p, t, tau_event) ==
    LET s == p.current_shell_id
        db == calculate_distance_boundary(p.r, p.mu, r_inner[s], r_outer[s])
    IN  TraceLines(p, t, p.next_line_id, tau_event, 0,
                   calculate_distance_electron(electron_density[s], tau_event),
                   db[1], db[2])

(***************************************************************************)
(* move_rpacket (r_packet.py).  The two estimator increments and the       *)
(* update of r and mu.                                                     *)
(***************************************************************************)
\* faulty variant of JContribution: the Doppler factor is taken where the flight
\* ends
JContributionAfterMove(p, distance, t) ==
    LET new_r == Sqrt(p.r * p.r + distance * distance
                      + 2 * p.r * distance * p.mu)
        new_mu == IF new_r = 0 THEN p.mu ELSE (p.mu * p.r + distance) \div new_r
    IN  TimesDoppler(p.energy, new_r, new_mu, t) * distance

\* comov_energy * distance, added to j_estimator[current_shell_id]
JContribution(p, distance, t) ==
    TimesDoppler(p.energy, p.r, p.mu, t) * distance

\* comov_energy * distance * comov_nu, added to nu_bar_estimator
NuBarContribution(p, distance, t) ==
    TimesDoppler(p.energy, p.r, p.mu, t) * distance
        * TimesDoppler(p.nu, p.r, p.mu, t)

MovedPacket(p, distance) ==
    IF distance > 0
    THEN LET new_r == Sqrt(p.r * p.r + distance * distance
                           + 2 * p.r * distance * p.mu)
         IN  [p EXCEPT !.mu = (p.mu * p.r + distance) \div new_r,
                       !.r = new_r]
    ELSE p

\* faulty variant of move_packet_across_shell_boundary: > for >= at the outer edge
CrossOuterEdgeOffByOne(p, delta_shell, n_shells) ==
    LET next_shell_id == p.current_shell_id + delta_shell
    IN  IF next_shell_id > n_shells
        THEN [p EXCEPT !.status = EMITTED]
        ELSE IF next_shell_id < 0
        THEN [p EXCEPT !.status = REABSORBED]
        ELSE [p EXCEPT !.current_shell_id = next_shell_id]

\* faulty variant of move_packet_across_shell_boundary: the line index is reset when
\* the packet enters another shell
CrossResetsLineId(p, delta_shell, n_shells) ==
    LET next_shell_id == p.current_shell_id + delta_shell
    IN  IF next_shell_id >= n_shells
        THEN [p EXCEPT !.status = EMITTED]
        ELSE IF next_shell_id < 0
        THEN [p EXCEPT !.status = REABSORBED]
        ELSE [p EXCEPT !.current_shell_id = next_shell_id,
                       !.next_line_id = 0]

move_packet_across_shell_boundary(p, delta_shell, n_shells) ==
    LET next_shell_id == p.current_shell_id + delta_shell
    IN  IF next_shell_id >= n_shells
        THEN [p EXCEPT !.status = EMITTED]
        ELSE IF next_shell_id < 0
        THEN [p EXCEPT !.status = REABSORBED]
        ELSE [p EXCEPT !.current_shell_id = next_shell_id]

\* faulty variant of line_emission: the line index stays at the emission line
LineEmissionKeepsLineId(p, emission_line_id, t) ==
    [p EXCEPT !.nu = (nu_line_of(emission_line_id) * DopplerDen(t))
                         \div get_doppler_factor(p.r, p.mu, t),
              !.next_line_id = emission_line_id]

line_emission(p, emission_line_id, t) ==
    [p EXCEPT !.nu = (nu_line_of(emission_line_id) * DopplerDen(t))
                         \div get_doppler_factor(p.r, p.mu, t),
              !.next_line_id = emission_line_id + 1]

(***************************************************************************)
(* Packet initialization (single_packet_loop.py).                          *)
(***************************************************************************)
set_packet_props_partial_relativity(p, t) ==
    [p EXCEPT !.nu = TimesInverseDoppler(p.nu, p.r, p.mu, t),
              !.energy = TimesInverseDoppler(p.energy, p.r, p.mu, t)]

\* mu = (mu + beta) / (1 + beta * mu), beta = r / (c * t)
set_packet_props_full_relativity(p, t) ==
    [p EXCEPT !.nu = TimesInverseDoppler(p.nu, p.r, p.mu, t),
              !.energy = TimesInverseDoppler(p.energy, p.r, p.mu, t),
              !.mu = (p.mu * DopplerDen(t) + p.r)
                         \div (DopplerDen(t) + p.r * p.mu)]

(***************************************************************************)
(* Interaction handlers and virtual packets.  interaction.py and           *)
(* vpacket.py are not among the sources; they are modelled from the        *)
(* description of the handlers: a scatter draws a new direction and keeps  *)
(* the co-moving frequency and energy.                                     *)
(***************************************************************************)
\* the packet after a new direction new_mu, its co-moving energy kept
Redirected(p, new_mu, t) ==
    [p EXCEPT !.mu = new_mu,
              !.energy = (TimesDoppler(p.energy, p.r, p.mu, t) * DopplerDen(t))
                             \div get_doppler_factor(p.r, new_mu, t)]

thomson_scatter(p, new_mu, t) ==
    LET comov_nu == TimesDoppler(p.nu, p.r, p.mu, t)
        q == Redirected(p, new_mu, t)
    IN  [q EXCEPT !.nu = (comov_nu * DopplerDen(t))
                             \div get_doppler_factor(p.r, new_mu, t)]

\* the macro-atom chain started by an absorption in line l: the line it
\* emits in, or no_of_lines when the chain exceeds its cap of internal hops
MacroAtomChain(l, draw) == (l + draw) % (no_of_lines + 1)

\* the emission line of a line interaction
EmissionLine(p, line_interaction_type, draw) ==
    IF line_interaction_type = "scatter" THEN p.next_line_id
    ELSE MacroAtomChain(p.next_line_id, draw)

\* returns [raised, packet]
line_scatter(p, t, line_interaction_type, new_mu, draw) ==
    LET em == EmissionLine(p, line_interaction_type, draw)
    IN  IF em >= no_of_lines
        THEN [raised |-> TRUE, packet |-> p]
        ELSE [raised |-> FALSE,
              packet |-> line_emission(Redirected(p, new_mu, t), em, t)]

\* a continuum event leaves the packet as a Thomson-like scatter
continuum_event(p, new_mu, t) == thomson_scatter(p, new_mu, t)

number_of_vpackets == 1

\* the virtual packets one volley appends: rays that start at the packet
\* with a freshly sampled direction
VPacketVolley(p, draw) ==
    [k \in 1 .. number_of_vpackets |->
        [nu |-> p.nu, energy |-> p.energy, mu |-> get_random_mu(draw)]]

trace_vpacket_volley(p, collection, draw) == collection \o VPacketVolley(p, draw)

(***************************************************************************)
(* Packet seeds (montecarlo/base.py, _initialize_packets): one seed per    *)
(* packet, derived from the base seed, the iteration and the packet index. *)
(***************************************************************************)
base_seed == 1
\* the iteration argument of run(), passed on as the seed offset
VARIABLE iteration
PacketSeed(i) == (base_seed + iteration + i) % RngPeriod

(***************************************************************************)
(* State.                                                                  *)
(***************************************************************************)
VARIABLES
    nthreads,               \* set_num_threads(self.nthreads)
    full_relativity,        \* montecarlo_configuration.full_relativity
    line_interaction_type,  \* montecarlo_configuration.line_interaction_type
    todo,                   \* indices of the prange loop not yet started
    pc,                     \* where each worker is in the loop body
    r_packet,               \* the packet each worker is transporting
    trace,                  \* what the worker's last trace_packet returned
    est_read,               \* estimator values a worker read for its +=
    rng,                    \* the generator state of each worker thread
    j_estimator,            \* the estimators all workers add to
    nu_bar_estimator,
    output_nus,             \* the driver's local output arrays (np.empty)
    output_energies,
    storage_output_nus,     \* storage_model.output_nus / output_energies
    storage_output_energies,
    run_state,              \* "running", "aborted" (exception), "done"
    vpacket_collection,     \* virtual packets of the worker's packet
    j_sum,                  \* history: sum of all J contributions made
    nu_bar_sum,             \* history: sum of all nu_bar contributions made
    n_volleys,              \* history: volleys dispatched for the packet
    n_interactions,         \* history: interactions of the packet
    last_event,             \* history: the last step of single_packet_loop
    seeded_rng,             \* history: the packet's own generator
    cancel_requested,       \* a request to cancel the run has been made
    compute,                \* config.spectrum.integrated.compute
    cuda_available,         \* cuda.is_available()
    solver,                 \* what from_config gave: the solver or ValueError
    transport_state,        \* the MonteCarloTransportState of the solver
    integrator_access,      \* outcome of the last read of an integrator property
    trace_args,             \* the packet and the tau_event of a trace_packet call
    call,                   \* one call of a function: its arguments, its result
    spectra                 \* the solver's _integrator and _spectrum_integrated

input_vars == <<no_of_shells, electron_density, tau_sobolev, packet_mus,
                trace_args, call, spectra>>
solver_vars == <<compute, cuda_available, solver, transport_state,
                 integrator_access>>
config_vars == <<nthreads, full_relativity, line_interaction_type, input_vars,
                 iteration, cancel_requested, solver_vars>>
estimator_vars == <<j_estimator, nu_bar_estimator, j_sum, nu_bar_sum>>
output_vars == <<output_nus, output_energies, storage_output_nus,
                 storage_output_energies>>
history_vars == <<n_volleys, n_interactions, last_event>>
vars == <<config_vars, todo, pc, r_packet, trace, est_read, rng,
          estimator_vars, output_vars, run_state, vpacket_collection,
          history_vars, seeded_rng>>

NoPacket == RPacket(0, 0, 0, 0, 0 - 1)
NoTrace == TraceResult(0, BOUNDARY, 0, 0, FALSE)
NoTraceArgs == [r_packet |-> NoPacket, tau_event |-> 0]
NoCall == [fn |-> "none", args |-> <<>>, returned |-> FALSE, result |-> <<>>]
\* a new solver: _integrator = None, _spectrum_integrated = None, nothing
\* read; an integrator and a spectrum are known by the number of the run
\* that made the integrator, None is 0
NoSpectra == [runs |-> 0, integrator |-> 0, spectrum_integrated |-> 0, read |-> "not read", spectrum |-> 0]

\* no solver made yet, no transport state, no integrator read
NoSolver == [called |-> FALSE, raised |-> FALSE, constructed |-> FALSE,
             use_gpu |-> FALSE, enable_full_relativity |-> FALSE,
             integrator |-> "None"]
NoTransportState == [exists |-> FALSE, enable_full_relativity |-> FALSE,
                     integrator |-> "None"]
NoAccess == [by |-> "nobody", outcome |-> "not read"]

\* the model, the plasma and the packet source of the runs
StandardInputs ==
    /\ no_of_shells = 2
    /\ electron_density = [s \in 0 .. 1 |-> 1]
    /\ tau_sobolev = <<[s \in 0 .. 1 |-> IF s = 0 THEN 10 ELSE 0],
                       [s \in 0 .. 1 |-> IF s = 0 THEN 0 ELSE 10]>>
    /\ packet_mus = [i \in Packets |-> 1]

\* montecarlo_main_loop is entered on n threads: nothing is started, the
\* estimators are new; the generator of a thread that runs starts in a
\* state the run does not choose
LoopEntered(n) ==
    /\ nthreads = n
    /\ iteration = 0
    /\ cancel_requested = FALSE
    /\ rng \in {f \in [Workers -> RngStates] :
                  \A w \in Workers : w >= n => f[w] = 0}
    /\ todo = Packets
    /\ pc = [w \in Workers |-> "idle"]
    /\ r_packet = [w \in Workers |-> NoPacket]
    /\ trace = [w \in Workers |-> NoTrace]
    /\ est_read = [w \in Workers |-> <<0, 0>>]
    /\ j_estimator = [s \in Shells |-> 0]
    /\ nu_bar_estimator = [s \in Shells |-> 0]
    /\ output_nus = <<>>
    /\ output_energies = <<>>
    /\ storage_output_nus = <<>>
    /\ storage_output_energies = <<>>
    /\ run_state = "running"
    /\ vpacket_collection = [w \in Workers |-> <<>>]
    /\ j_sum = [s \in Shells |-> 0]
    /\ nu_bar_sum = [s \in Shells |-> 0]
    /\ n_volleys = [w \in Workers |-> 0]
    /\ n_interactions = [w \in Workers |-> 0]
    /\ last_event = [w \in Workers |-> "none"]
    /\ seeded_rng = [w \in Workers |-> 0]
    /\ trace_args = NoTraceArgs
    /\ call = NoCall
    /\ spectra = NoSpectra

\* the state after the driver is entered on n threads, by a solver that
\* from_config made for the CPU
InitOn(n) ==
    /\ full_relativity \in BOOLEAN
    /\ line_interaction_type \in {"scatter", "macroatom"}
    /\ StandardInputs
    /\ compute = "CPU"
    /\ cuda_available = FALSE
    /\ solver = [called |-> TRUE, raised |-> FALSE, constructed |-> TRUE,
                 use_gpu |-> FALSE, enable_full_relativity |-> full_relativity,
                 integrator |-> "None"]
    /\ transport_state = NoTransportState
    /\ integrator_access = NoAccess
    /\ LoopEntered(n)

\* one draw of worker w's generator
Draw(w) ==
    /\ rng' = [rng EXCEPT ![w] = RngStep(rng[w])]
    /\ seeded_rng' = [seeded_rng EXCEPT ![w] = RngStep(seeded_rng[w])]

(***************************************************************************)
(* montecarlo_main_loop (montecarlo_numba/base.py): the body of the prange *)
(* loop, run by every worker for the indices it is given.                  *)
(***************************************************************************)
\* for i in prange(no_of_packets): r_packet = RPacket(...)
StartPacket(w, i) ==
    /\ run_state = "running"
    /\ w < nthreads
    /\ pc[w] = "idle"
    /\ i \in todo
    /\ todo' = todo \ {i}
    /\ r_packet' = [r_packet EXCEPT
                      ![w] = RPacket(r_inner[0], packet_mus[i], packet_nus[i],
                                     packet_energy, i)]
    /\ pc' = [pc EXCEPT ![w] = "init"]
    /\ vpacket_collection' = [vpacket_collection EXCEPT ![w] = <<>>]
    /\ n_volleys' = [n_volleys EXCEPT ![w] = 0]
    /\ n_interactions' = [n_interactions EXCEPT ![w] = 0]
    /\ last_event' = [last_event EXCEPT ![w] = "none"]
    /\ seeded_rng' = [seeded_rng EXCEPT ![w] = PacketSeed(i)]
    /\ UNCHANGED <<config_vars, trace, est_read, rng, estimator_vars,
                   output_vars, run_state>>

(***************************************************************************)
(* single_packet_loop (single_packet_loop.py).                             *)
(***************************************************************************)
\* faulty variant of InitPacket: the line index is looked up before the packet is
\* brought into the lab frame
InitPacketLineIdFirst(w) ==
    /\ pc[w] = "init"
    /\ LET p == initialize_line_id(r_packet[w], time_explosion)
           q == IF full_relativity
                THEN set_packet_props_full_relativity(p, time_explosion)
                ELSE set_packet_props_partial_relativity(p, time_explosion)
       IN  r_packet' = [r_packet EXCEPT ![w] = q]
    /\ pc' = [pc EXCEPT ![w] = "volley"]
    /\ last_event' = [last_event EXCEPT ![w] = "init"]
    /\ UNCHANGED <<config_vars, todo, trace, est_read, rng, estimator_vars,
                   output_vars, run_state, vpacket_collection, n_volleys,
                   n_interactions, seeded_rng>>

\* set_packet_props_*_relativity, then initialize_line_id
InitPacket(w) ==
    /\ pc[w] = "init"
    /\ LET p == r_packet[w]
           q == IF full_relativity
                THEN set_packet_props_full_relativity(p, time_explosion)
                ELSE set_packet_props_partial_relativity(p, time_explosion)
       IN  r_packet' = [r_packet EXCEPT
                          ![w] = initialize_line_id(q, time_explosion)]
    /\ pc' = [pc EXCEPT ![w] = "volley"]
    /\ last_event' = [last_event EXCEPT ![w] = "init"]
    /\ UNCHANGED <<config_vars, todo, trace, est_read, rng, estimator_vars,
                   output_vars, run_state, vpacket_collection, n_volleys,
                   n_interactions, seeded_rng>>

\* faulty variant of DispatchVolley: the volley flies the real packet along with its
\* virtual packets and scores the flight in the estimators
DispatchVolleyMovesPacket(w) ==
    /\ pc[w] = "volley"
    /\ vpacket_collection' =
           [vpacket_collection EXCEPT
              ![w] = trace_vpacket_volley(r_packet[w], @, rng[w])]
    /\ Draw(w)
    /\ n_volleys' = [n_volleys EXCEPT ![w] = @ + 1]
    /\ last_event' = [last_event EXCEPT ![w] = "volley"]
    /\ pc' = [pc EXCEPT ![w] = "loop"]
    /\ r_packet' = [r_packet EXCEPT ![w] = MovedPacket(@, 1)]
    /\ j_estimator' =
           [j_estimator EXCEPT
              ![r_packet[w].current_shell_id] =
                  @ + JContribution(r_packet[w], 1, time_explosion)]
    /\ UNCHANGED <<config_vars, todo, trace, est_read, nu_bar_estimator,
                   j_sum, nu_bar_sum, output_vars, run_state, n_interactions>>

\* trace_vpacket_volley(r_packet, vpacket_collection, ...)
DispatchVolley(w) ==
    /\ pc[w] = "volley"
    /\ vpacket_collection' =
           [vpacket_collection EXCEPT
              ![w] = trace_vpacket_volley(r_packet[w], @, rng[w])]
    /\ Draw(w)
    /\ n_volleys' = [n_volleys EXCEPT ![w] = @ + 1]
    /\ last_event' = [last_event EXCEPT ![w] = "volley"]
    /\ pc' = [pc EXCEPT ![w] = "loop"]
    /\ UNCHANGED <<config_vars, todo, r_packet, trace, est_read,
                   estimator_vars, output_vars, run_state, n_interactions>>

\* while r_packet.status == IN_PROCESS: trace_packet(...).  An exception of
\* calculate_distance_line leaves the loop, the prange loop and the driver.
TracePacket(w) ==
    /\ pc[w] = "loop"
    /\ r_packet[w].status = IN_PROCESS
    /\ LET res == trace_packet(r_packet[w], time_explosion,
                               RandomExponential(rng[w]))
       IN  IF res.raised
           THEN /\ pc' = [pc EXCEPT ![w] = "raised"]
                /\ run_state' = "aborted"
                /\ UNCHANGED <<r_packet, trace>>
           ELSE /\ pc' = [pc EXCEPT ![w] = "move"]
                /\ r_packet' = [r_packet EXCEPT
                                  ![w].next_line_id = res.next_line_id]
                /\ trace' = [trace EXCEPT ![w] = res]
                /\ UNCHANGED run_state
    /\ Draw(w)
    /\ UNCHANGED <<config_vars, todo, est_read, estimator_vars, output_vars,
                   vpacket_collection, history_vars>>

\* move_r_packet, first half: the reads of estimator[current_shell_id] += ...
MoveRead(w) ==
    /\ pc[w] = "move"
    /\ LET s == r_packet[w].current_shell_id
       IN  est_read' = [est_read EXCEPT
                          ![w] = <<j_estimator[s], nu_bar_estimator[s]>>]
    /\ pc' = [pc EXCEPT ![w] = "move_write"]
    /\ UNCHANGED <<config_vars, todo, r_packet, trace, rng, estimator_vars,
                   output_vars, run_state, vpacket_collection, history_vars,
                   seeded_rng>>

\* faulty variant of MoveWrite: the flight redshifts the lab frequency to the
\* co-moving frequency at the start of the flight
MoveWriteShiftsNu(w) ==
    /\ pc[w] = "move_write"
    /\ LET p == r_packet[w]
           s == p.current_shell_id
           d == trace[w].distance
           dj == JContribution(p, d, time_explosion)
           dnu == NuBarContribution(p, d, time_explosion)
       IN  /\ j_estimator' = [j_estimator EXCEPT ![s] = est_read[w][1] + dj]
           /\ nu_bar_estimator' =
                  [nu_bar_estimator EXCEPT ![s] = est_read[w][2] + dnu]
           /\ j_sum' = [j_sum EXCEPT ![s] = @ + dj]
           /\ nu_bar_sum' = [nu_bar_sum EXCEPT ![s] = @ + dnu]
           /\ r_packet' = [r_packet EXCEPT
                             ![w] = [MovedPacket(p, d) EXCEPT
                                       !.nu = TimesDoppler(p.nu, p.r, p.mu,
                                                           time_explosion)]]
    /\ pc' = [pc EXCEPT ![w] = "event"]
    /\ UNCHANGED <<config_vars, todo, trace, est_read, rng, output_vars,
                   run_state, vpacket_collection, history_vars, seeded_rng>>

\* move_r_packet, second half: the writes of the two sums, then r and mu
MoveWrite(w) ==
    /\ pc[w] = "move_write"
    /\ LET p == r_packet[w]
           s == p.current_shell_id
           d == trace[w].distance
           dj == JContribution(p, d, time_explosion)
           dnu == NuBarContribution(p, d, time_explosion)
       IN  /\ j_estimator' = [j_estimator EXCEPT ![s] = est_read[w][1] + dj]
           /\ nu_bar_estimator' =
                  [nu_bar_estimator EXCEPT ![s] = est_read[w][2] + dnu]
           /\ j_sum' = [j_sum EXCEPT ![s] = @ + dj]
           /\ nu_bar_sum' = [nu_bar_sum EXCEPT ![s] = @ + dnu]
           /\ r_packet' = [r_packet EXCEPT ![w] = MovedPacket(p, d)]
    /\ pc' = [pc EXCEPT ![w] = "event"]
    /\ UNCHANGED <<config_vars, todo, trace, est_read, rng, output_vars,
                   run_state, vpacket_collection, history_vars, seeded_rng>>

\* faulty variant of CrossBoundary: a volley is dispatched after the crossing too
CrossBoundaryThenVolley(w) ==
    /\ pc[w] = "event"
    /\ trace[w].interaction_type = BOUNDARY
    /\ r_packet' = [r_packet EXCEPT
                      ![w] = move_packet_across_shell_boundary(
                                 @, trace[w].delta_shell, no_of_shells)]
    /\ last_event' = [last_event EXCEPT ![w] = "boundary"]
    /\ pc' = [pc EXCEPT ![w] = "volley"]
    /\ UNCHANGED <<config_vars, todo, trace, est_read, rng, estimator_vars,
                   output_vars, run_state, vpacket_collection, n_volleys,
                   n_interactions, seeded_rng>>

\* interaction_type == BOUNDARY: move_packet_across_shell_boundary
CrossBoundary(w) ==
    /\ pc[w] = "event"
    /\ trace[w].interaction_type = BOUNDARY
    /\ r_packet' = [r_packet EXCEPT
                      ![w] = move_packet_across_shell_boundary(
                                 @, trace[w].delta_shell, no_of_shells)]
    /\ last_event' = [last_event EXCEPT ![w] = "boundary"]
    /\ pc' = [pc EXCEPT ![w] = "loop"]
    /\ UNCHANGED <<config_vars, todo, trace, est_read, rng, estimator_vars,
                   output_vars, run_state, vpacket_collection, n_volleys,
                   n_interactions, seeded_rng>>

\* the packet after the handler of a LINE, ESCATTERING or CONTINUUM_PROCESS
\* event: [raised, packet]
Handled(p, interaction_type, mode, draw) ==
    CASE interaction_type = LINE ->
             line_scatter(p, time_explosion, mode, get_random_mu(draw), draw)
      [] interaction_type = ESCATTERING ->
             [raised |-> FALSE,
              packet |-> thomson_scatter(p, get_random_mu(draw), time_explosion)]
      [] OTHER ->
             [raised |-> FALSE,
              packet |-> continuum_event(p, get_random_mu(draw), time_explosion)]

\* interaction_type == LINE / ESCATTERING / CONTINUUM_PROCESS: the handler,
\* after which the loop dispatches a volley
Interact(w) ==
    /\ pc[w] = "event"
    /\ trace[w].interaction_type # BOUNDARY
    /\ n_interactions[w] < MaxInteractions
    /\ LET h == Handled(r_packet[w], trace[w].interaction_type,
                        line_interaction_type, rng[w])
       IN  IF h.raised
           THEN /\ pc' = [pc EXCEPT ![w] = "raised"]
                /\ run_state' = "aborted"
                /\ UNCHANGED <<r_packet, n_interactions, last_event>>
           ELSE /\ pc' = [pc EXCEPT ![w] = "volley"]
                /\ r_packet' = [r_packet EXCEPT ![w] = h.packet]
                /\ n_interactions' = [n_interactions EXCEPT ![w] = @ + 1]
                /\ last_event' = [last_event EXCEPT
                                    ![w] = trace[w].interaction_type]
                /\ UNCHANGED run_state
    /\ Draw(w)
    /\ UNCHANGED <<config_vars, todo, trace, est_read, estimator_vars,
                   output_vars, vpacket_collection, n_volleys>>

\* faulty variant of WriteOutput: the energy of a reabsorbed packet is written
\* without the minus sign
WriteOutputSignLost(w) ==
    /\ pc[w] = "loop"
    /\ r_packet[w].status # IN_PROCESS
    /\ LET p == r_packet[w]
       IN  /\ output_nus' = (p.index :> p.nu) @@ output_nus
           /\ output_energies' = (p.index :> p.energy) @@ output_energies
    /\ pc' = [pc EXCEPT ![w] = "idle"]
    /\ UNCHANGED <<config_vars, todo, r_packet, trace, est_read, rng,
                   estimator_vars, storage_output_nus,
                   storage_output_energies, run_state, vpacket_collection,
                   history_vars, seeded_rng>>

\* faulty variant of WriteOutput: the sign of a reabsorbed packet is flipped on the
\* packet, and the packet's energy is then written
WriteOutputFlipsPacket(w) ==
    /\ pc[w] = "loop"
    /\ r_packet[w].status # IN_PROCESS
    /\ LET p == r_packet[w]
           e == IF p.status = REABSORBED THEN 0 - p.energy ELSE p.energy
       IN  /\ output_nus' = (p.index :> p.nu) @@ output_nus
           /\ output_energies' = (p.index :> e) @@ output_energies
           /\ r_packet' = [r_packet EXCEPT ![w].energy = e]
    /\ pc' = [pc EXCEPT ![w] = "idle"]
    /\ UNCHANGED <<config_vars, todo, trace, est_read, rng,
                   estimator_vars, storage_output_nus,
                   storage_output_energies, run_state, vpacket_collection,
                   history_vars, seeded_rng>>

\* after single_packet_loop returns: output_nus[i] = r_packet.nu and the
\* signed energy (montecarlo_numba/base.py, lines 34-39)
WriteOutput(w) ==
    /\ pc[w] = "loop"
    /\ r_packet[w].status # IN_PROCESS
    /\ LET p == r_packet[w]
       IN  /\ output_nus' = (p.index :> p.nu) @@ output_nus
           /\ output_energies' =
                  IF p.status = REABSORBED
                  THEN (p.index :> (0 - p.energy)) @@ output_energies
                  ELSE IF p.status = EMITTED
                  THEN (p.index :> p.energy) @@ output_energies
                  ELSE output_energies
    /\ pc' = [pc EXCEPT ![w] = "idle"]
    /\ UNCHANGED <<config_vars, todo, r_packet, trace, est_read, rng,
                   estimator_vars, storage_output_nus,
                   storage_output_energies, run_state, vpacket_collection,
                   history_vars, seeded_rng>>

\* after the prange loop: storage_model.output_energies[:] = ... (lines 40-41)
CopyOutputs ==
    /\ run_state = "running"
    /\ todo = {}
    /\ \A w \in Workers : pc[w] = "idle"
    /\ storage_output_energies' = output_energies
    /\ storage_output_nus' = output_nus
    /\ run_state' = "done"
    /\ UNCHANGED <<config_vars, todo, pc, r_packet, trace, est_read, rng,
                   estimator_vars, output_nus, output_energies,
                   vpacket_collection, history_vars, seeded_rng>>

Next ==
    \/ \E w \in Workers : \E i \in Packets : StartPacket(w, i)
    \/ \E w \in Workers : InitPacket(w)
    \/ \E w \in Workers : DispatchVolley(w)
    \/ \E w \in Workers : TracePacket(w)
    \/ \E w \in Workers : MoveRead(w)
    \/ \E w \in Workers : MoveWrite(w)
    \/ \E w \in Workers : CrossBoundary(w)
    \/ \E w \in Workers : Interact(w)
    \/ \E w \in Workers : WriteOutput(w)
    \/ CopyOutputs

\* a run on one thread
Init == InitOn(1)
Spec == Init /\ [][Next]_vars

\* a run on MaxThreads threads
InitParallel == InitOn(MaxThreads)
SpecParallel == InitParallel /\ [][Next]_vars

(***************************************************************************)
(* MontecarloTransportSolver.run (montecarlo/base.py): every iteration of  *)
(* the simulation calls run again; run makes new estimators and a new      *)
(* packet collection and enters the main loop.                             *)
(***************************************************************************)
\* faulty variant of StartRun: the estimators of the previous run are kept
StartRunKeepsEstimators ==
    /\ run_state = "done"
    /\ iteration + 1 < MaxIterations
    /\ iteration' = iteration + 1
    /\ j_sum' = [s \in Shells |-> 0]
    /\ nu_bar_sum' = [s \in Shells |-> 0]
    /\ todo' = Packets
    /\ r_packet' = [w \in Workers |-> NoPacket]
    /\ output_nus' = <<>>
    /\ output_energies' = <<>>
    /\ storage_output_nus' = <<>>
    /\ storage_output_energies' = <<>>
    /\ run_state' = "running"
    /\ UNCHANGED <<nthreads, full_relativity, line_interaction_type,
                   input_vars, cancel_requested, solver_vars,
                   pc, trace, est_read, rng, j_estimator,
                   nu_bar_estimator, vpacket_collection, history_vars,
                   seeded_rng>>

\* run(): initialize_estimators gives arrays of zeros, _initialize_packets a
\* new packet collection with its own output arrays; the generator of a
\* thread goes on from where the previous run left it
StartRun ==
    /\ run_state = "done"
    /\ iteration + 1 < MaxIterations
    /\ iteration' = iteration + 1
    /\ j_estimator' = [s \in Shells |-> 0]
    /\ nu_bar_estimator' = [s \in Shells |-> 0]
    /\ j_sum' = [s \in Shells |-> 0]
    /\ nu_bar_sum' = [s \in Shells |-> 0]
    /\ todo' = Packets
    /\ r_packet' = [w \in Workers |-> NoPacket]
    /\ output_nus' = <<>>
    /\ output_energies' = <<>>
    /\ storage_output_nus' = <<>>
    /\ storage_output_energies' = <<>>
    /\ run_state' = "running"
    /\ UNCHANGED <<nthreads, full_relativity, line_interaction_type,
                   input_vars, cancel_requested, solver_vars,
                   pc, trace, est_read, rng, vpacket_collection,
                   history_vars, seeded_rng>>

NextIterations == Next \/ StartRun

\* the runs of successive iterations, each on one thread
SpecIterations == Init /\ [][NextIterations]_vars

(***************************************************************************)
(* A request to cancel, made by the caller while the prange loop of        *)
(* montecarlo_main_loop still has packets to start.  The loop has no       *)
(* statement that reads such a request.                                    *)
(***************************************************************************)
RequestCancel ==
    /\ run_state = "running"
    /\ todo # {}
    /\ ~cancel_requested
    /\ cancel_requested' = TRUE
    /\ UNCHANGED <<nthreads, full_relativity, line_interaction_type,
                   input_vars, iteration, solver_vars, todo, pc, r_packet,
                   trace, est_read, rng, estimator_vars, output_vars, run_state,
                   vpacket_collection, history_vars, seeded_rng>>

NextCancel == Next \/ RequestCancel

\* a run on one thread that the caller may ask to cancel
SpecCancel == Init /\ [][NextCancel]_vars

(***************************************************************************)
(* The solver classes: from_config, the transport state and the integrator *)
(* properties (montecarlo/base.py, transport/montecarlo/base.py,           *)
(* montecarlo_state.py, spectrum/base.py).                                 *)
(***************************************************************************)
\* spellings of config.spectrum.integrated.compute
ComputeModes == {"GPU", "gpu", "Gpu", "AUTOMATIC", "Automatic", "automatic",
                 "CPU", "cpu", "cuda", ""}

\* str.upper() on these spellings
Upper(str) ==
    CASE str \in {"GPU", "gpu", "Gpu"} -> "GPU"
      [] str \in {"AUTOMATIC", "Automatic", "automatic"} -> "AUTOMATIC"
      [] str \in {"CPU", "cpu"} -> "CPU"
      [] str = "cuda" -> "CUDA"
      [] OTHER -> str

\* faulty variant of ComputeMode: GPU without a device falls back to the CPU
ComputeModeFallsBack(mode, cuda) ==
    LET running_mode == Upper(mode)
    IN  IF running_mode \in {"GPU", "AUTOMATIC"}
        THEN [raised |-> FALSE, use_gpu |-> cuda]
        ELSE IF running_mode = "CPU"
        THEN [raised |-> FALSE, use_gpu |-> FALSE]
        ELSE [raised |-> TRUE, use_gpu |-> FALSE]

\* from_config, the choice of use_gpu; raised stands for ValueError
ComputeMode(mode, cuda) ==
    LET running_mode == Upper(mode)
    IN  IF running_mode = "GPU"
        THEN IF cuda THEN [raised |-> FALSE, use_gpu |-> TRUE]
             ELSE [raised |-> TRUE, use_gpu |-> FALSE]
        ELSE IF running_mode = "AUTOMATIC"
        THEN IF cuda THEN [raised |-> FALSE, use_gpu |-> TRUE]
             ELSE [raised |-> FALSE, use_gpu |-> FALSE]
        ELSE IF running_mode = "CPU"
        THEN [raised |-> FALSE, use_gpu |-> FALSE]
        ELSE [raised |-> TRUE, use_gpu |-> FALSE]

\* from_config(config, packet_source): cls(...) is reached only when the
\* compute mode did not raise
from_config ==
    /\ ~solver.called
    /\ LET mode == ComputeMode(compute, cuda_available)
       IN  solver' = [called |-> TRUE, raised |-> mode.raised,
                      constructed |-> ~mode.raised,
                      use_gpu |-> mode.use_gpu,
                      enable_full_relativity |->
                          (~mode.raised /\ full_relativity),
                      integrator |-> "None"]
    /\ UNCHANGED <<nthreads, full_relativity, line_interaction_type,
                   input_vars, iteration, cancel_requested, compute,
                   cuda_available, transport_state, integrator_access, todo,
                   pc, r_packet, trace, est_read, rng, estimator_vars,
                   output_vars, run_state, vpacket_collection, history_vars,
                   seeded_rng>>

\* MontecarloTransportSolver.run, as far as the integrator goes: after the
\* main loop, self._integrator = FormalIntegrator(...)
SolverRun ==
    /\ solver.constructed
    /\ solver.integrator = "None"
    /\ solver' = [solver EXCEPT !.integrator = "FormalIntegrator"]
    /\ UNCHANGED <<nthreads, full_relativity, line_interaction_type,
                   input_vars, iteration, cancel_requested, compute,
                   cuda_available, transport_state, integrator_access, todo,
                   pc, r_packet, trace, est_read, rng, estimator_vars,
                   output_vars, run_state, vpacket_collection, history_vars,
                   seeded_rng>>

\* MonteCarloTransportSolver.initialize_transport_state: the state's
\* __init__ sets enable_full_relativity = False, and nothing copies the
\* solver's flag to the state; _integrator is set to a FormalIntegrator
initialize_transport_state ==
    /\ solver.constructed
    /\ ~transport_state.exists
    /\ transport_state' = [exists |-> TRUE, enable_full_relativity |-> FALSE,
                           integrator |-> "FormalIntegrator"]
    /\ UNCHANGED <<nthreads, full_relativity, line_interaction_type,
                   input_vars, iteration, cancel_requested, compute,
                   cuda_available, solver, integrator_access, todo,
                   pc, r_packet, trace, est_read, rng, estimator_vars,
                   output_vars, run_state, vpacket_collection, history_vars,
                   seeded_rng>>

\* the property integrator of an object with the fields
\* enable_full_relativity and _integrator
IntegratorOf(obj) ==
    IF obj.enable_full_relativity THEN "NotImplementedError"
    ELSE obj.integrator

\* MontecarloTransportSolver.integrator
SolverIntegrator ==
    /\ solver.constructed
    /\ integrator_access' = [by |-> "MontecarloTransportSolver",
                             outcome |-> IntegratorOf(solver)]
    /\ UNCHANGED <<nthreads, full_relativity, line_interaction_type,
                   input_vars, iteration, cancel_requested, compute,
                   cuda_available, solver, transport_state, todo,
                   pc, r_packet, trace, est_read, rng, estimator_vars,
                   output_vars, run_state, vpacket_collection, history_vars,
                   seeded_rng>>

\* MonteCarloTransportState.integrator
StateIntegrator ==
    /\ transport_state.exists
    /\ integrator_access' = [by |-> "MonteCarloTransportState",
                             outcome |-> IntegratorOf(transport_state)]
    /\ UNCHANGED <<nthreads, full_relativity, line_interaction_type,
                   input_vars, iteration, cancel_requested, compute,
                   cuda_available, solver, transport_state, todo,
                   pc, r_packet, trace, est_read, rng, estimator_vars,
                   output_vars, run_state, vpacket_collection, history_vars,
                   seeded_rng>>

NextSolver ==
    \/ from_config
    \/ SolverRun
    \/ initialize_transport_state
    \/ SolverIntegrator
    \/ StateIntegrator

\* a configuration, before from_config is called on it
InitSolver ==
    /\ full_relativity \in BOOLEAN
    /\ line_interaction_type \in {"scatter", "macroatom"}
    /\ StandardInputs
    /\ compute \in ComputeModes
    /\ cuda_available \in BOOLEAN
    /\ solver = NoSolver
    /\ transport_state = NoTransportState
    /\ integrator_access = NoAccess
    /\ \E n \in 1 .. MaxThreads : LoopEntered(n)

SpecSolver == InitSolver /\ [][NextSolver]_vars

(***************************************************************************)
(* The integrated spectrum of MontecarloTransportSolver                    *)
(* (montecarlo/base.py): run() makes a new FormalIntegrator, the property  *)
(* spectrum_integrated computes the spectrum with the integrator once and  *)
(* keeps it in _spectrum_integrated.                                       *)
(***************************************************************************)
\* everything but the solver and its spectra
other_vars == <<nthreads, full_relativity, line_interaction_type, no_of_shells, electron_density, tau_sobolev, packet_mus, trace_args, call, iteration, cancel_requested, compute, cuda_available, transport_state, integrator_access, todo, pc, r_packet, trace, est_read, rng, estimator_vars, output_vars, run_state, vpacket_collection, history_vars, seeded_rng>>

\* run(): self._integrator = FormalIntegrator(simulation_state, plasma, self)
\* at its end; _spectrum_integrated is not assigned
SolverRunAgain ==
    /\ solver.constructed
    /\ spectra.runs < MaxIterations
    /\ spectra' = [spectra EXCEPT !.runs = @ + 1, !.integrator = spectra.runs + 1,
                                  !.read = "not read", !.spectrum = 0]
    /\ solver' = [solver EXCEPT !.integrator = "FormalIntegrator"]
    /\ UNCHANGED other_vars

\* the property spectrum_integrated: what it returns, and the cache after it
SpectrumIntegrated(s, sp) ==
    IF sp.spectrum_integrated # 0
    THEN [sp EXCEPT !.read = "returned", !.spectrum = sp.spectrum_integrated]
    ELSE IF s.enable_full_relativity
    THEN [sp EXCEPT !.read = "NotImplementedError"]
    ELSE IF sp.integrator = 0
    THEN [sp EXCEPT !.read = "AttributeError"]
    ELSE [sp EXCEPT !.spectrum_integrated = sp.integrator,
                    !.read = "returned", !.spectrum = sp.integrator]

ReadSpectrumIntegrated ==
    /\ solver.constructed
    /\ spectra.read = "not read"
    /\ spectra' = SpectrumIntegrated(solver, spectra)
    /\ UNCHANGED <<solver, other_vars>>

NextSpectrum ==
    \/ from_config
    \/ SolverRunAgain
    \/ ReadSpectrumIntegrated

SpecSpectrum == InitSolver /\ [][NextSpectrum]_vars

(***************************************************************************)
(* Free streaming: one shell, no electrons, no line opacity, packets       *)
(* launched outward or inward.  No interaction handler can run.            *)
(***************************************************************************)
InitFreeStreaming ==
    /\ full_relativity \in BOOLEAN
    /\ line_interaction_type \in {"scatter", "macroatom"}
    /\ no_of_shells = 1
    /\ electron_density = [s \in 0 .. 0 |-> 0]
    /\ tau_sobolev = <<[s \in 0 .. 0 |-> 0], [s \in 0 .. 0 |-> 0]>>
    /\ packet_mus \in [Packets -> {0 - 1, 1}]
    /\ compute = "CPU"
    /\ cuda_available = FALSE
    /\ solver = [called |-> TRUE, raised |-> FALSE, constructed |-> TRUE,
                 use_gpu |-> FALSE, enable_full_relativity |-> full_relativity,
                 integrator |-> "None"]
    /\ transport_state = NoTransportState
    /\ integrator_access = NoAccess
    /\ LoopEntered(1)

NextFreeStreaming ==
    \/ \E w \in Workers : \E i \in Packets : StartPacket(w, i)
    \/ \E w \in Workers : InitPacket(w)
    \/ \E w \in Workers : DispatchVolley(w)
    \/ \E w \in Workers : TracePacket(w)
    \/ \E w \in Workers : MoveRead(w)
    \/ \E w \in Workers : MoveWrite(w)
    \/ \E w \in Workers : CrossBoundary(w)
    \/ \E w \in Workers : WriteOutput(w)
    \/ CopyOutputs

SpecFreeStreaming == InitFreeStreaming /\ [][NextFreeStreaming]_vars

(***************************************************************************)
(* Packet masks, luminosities and luminosity histograms of the transport   *)
(* state (montecarlo_state.py), read from the outputs of the run.          *)
(***************************************************************************)
\* bin edges of the spectrum, ascending
spectrum_frequency == <<700, 850, 1000, 1100>>
time_of_simulation == 1

\* output_energies * erg / (time_of_simulation * s)
packet_luminosity ==
    [i \in DOMAIN storage_output_energies |->
        storage_output_energies[i] \div time_of_simulation]

\* output_energies >= 0
emitted_packet_mask ==
    [i \in DOMAIN storage_output_energies |-> storage_output_energies[i] >= 0]

\* the indices a boolean mask selects
Selected(mask) == {i \in DOMAIN mask : mask[i]}
Negated(mask) == [i \in DOMAIN mask |-> ~mask[i]]

emitted_packet_nu ==
    [i \in Selected(emitted_packet_mask) |-> storage_output_nus[i]]
reabsorbed_packet_nu ==
    [i \in Selected(Negated(emitted_packet_mask)) |-> storage_output_nus[i]]
emitted_packet_luminosity ==
    [i \in Selected(emitted_packet_mask) |-> packet_luminosity[i]]

\* faulty variant of reabsorbed_packet_luminosity: the stored sign is kept
ReabsorbedLuminositySigned ==
    [i \in Selected(Negated(emitted_packet_mask)) |-> packet_luminosity[i]]

\* -self.packet_luminosity[~self.emitted_packet_mask]
reabsorbed_packet_luminosity ==
    [i \in Selected(Negated(emitted_packet_mask)) |-> 0 - packet_luminosity[i]]

RECURSIVE SumOver(_, _)
SumOver(f, S) ==
    IF S = {} THEN 0
    ELSE LET i == CHOOSE j \in S : TRUE IN f[i] + SumOver(f, S \ {i})

\* np.histogram: bin k is [edge k, edge k+1), the last bin has its right
\* edge too; a sample outside all bins is dropped
NoOfBins == Len(spectrum_frequency) - 1
InBin(nu, k) ==
    /\ nu >= spectrum_frequency[k]
    /\ IF k = NoOfBins THEN nu <= spectrum_frequency[k + 1]
       ELSE nu < spectrum_frequency[k + 1]
Histogram(nus, weights) ==
    [k \in 1 .. NoOfBins |->
        SumOver(weights, {i \in DOMAIN nus : InBin(nus[i], k)})]

montecarlo_emitted_luminosity ==
    Histogram(emitted_packet_nu, emitted_packet_luminosity)
montecarlo_reabsorbed_luminosity ==
    Histogram(reabsorbed_packet_nu, reabsorbed_packet_luminosity)

(***************************************************************************)
(* trace_packet on its own: a packet somewhere in a shell, flying in or    *)
(* out, with a line index at or past the line its co-moving frequency has  *)
(* reached, is traced once through a plasma of some electron density and   *)
(* some Sobolev optical depths.  trace_args keeps the arguments.           *)
(***************************************************************************)
TraceNus == {860, 950, 1026, 1127}
TraceElectronDensities == {0, 1, 2}
TraceTaus == {0, 1, 10}

InitTrace ==
    /\ nthreads = 1
    /\ full_relativity = FALSE
    /\ line_interaction_type = "scatter"
    /\ no_of_shells = 2
    /\ \E ne \in TraceElectronDensities :
          electron_density = [s \in 0 .. 1 |-> ne]
    /\ \E t0 \in TraceTaus : \E t1 \in TraceTaus :
          tau_sobolev = <<[s \in 0 .. 1 |-> t0], [s \in 0 .. 1 |-> t1]>>
    /\ packet_mus = [i \in Packets |-> 1]
    /\ iteration = 0
    /\ cancel_requested = FALSE
    /\ compute = "CPU"
    /\ cuda_available = FALSE
    /\ solver = [called |-> TRUE, raised |-> FALSE, constructed |-> TRUE,
                 use_gpu |-> FALSE, enable_full_relativity |-> FALSE,
                 integrator |-> "None"]
    /\ transport_state = NoTransportState
    /\ integrator_access = NoAccess
    /\ \E s \in 0 .. 1 : \E dr \in {0, 5} : \E mu \in {0 - 1, 1} :
       \E nu \in TraceNus : \E l \in 0 .. no_of_lines : \E g \in RngStates :
          LET p == [RPacket(r_inner[s] + dr, mu, nu, packet_energy, 0)
                       EXCEPT !.current_shell_id = s, !.next_line_id = l]
          IN  /\ l >= initialize_line_id(p, time_explosion).next_line_id
              /\ r_packet = [w \in Workers |-> IF w = 0 THEN p ELSE NoPacket]
              /\ rng = [w \in Workers |-> IF w = 0 THEN g ELSE 0]
              /\ trace_args = [r_packet |-> p,
                               tau_event |-> RandomExponential(g)]
    /\ todo = {}
    /\ pc = [w \in Workers |-> IF w = 0 THEN "loop" ELSE "idle"]
    /\ trace = [w \in Workers |-> NoTrace]
    /\ est_read = [w \in Workers |-> <<0, 0>>]
    /\ j_estimator = [s \in Shells |-> 0]
    /\ nu_bar_estimator = [s \in Shells |-> 0]
    /\ output_nus = <<>>
    /\ output_energies = <<>>
    /\ storage_output_nus = <<>>
    /\ storage_output_energies = <<>>
    /\ run_state = "running"
    /\ vpacket_collection = [w \in Workers |-> <<>>]
    /\ j_sum = [s \in Shells |-> 0]
    /\ nu_bar_sum = [s \in Shells |-> 0]
    /\ n_volleys = [w \in Workers |-> 0]
    /\ n_interactions = [w \in Workers |-> 0]
    /\ last_event = [w \in Workers |-> "none"]
    /\ seeded_rng = [w \in Workers |-> 0]
    /\ call = NoCall
    /\ spectra = NoSpectra

NextTrace == \E w \in Workers : TracePacket(w)

SpecTrace == InitTrace /\ [][NextTrace]_vars

\* tau_trace_line_combined after the lines first .. last of shell s
TauSobolevWalked(first, last, s) ==
    SumOver([k \in first .. last |-> tau_sobolev_of(k, s)], first .. last)

\* what the loop of the traced call compares when it tests line l: the three
\* candidate distances and the Sobolev optical depth summed up to line l
LineUnderTest(l) ==
    LET p == trace_args.r_packet
        s == p.current_shell_id
        tau_before == TauSobolevWalked(p.next_line_id, l - 1, s)
    IN  [distance_boundary |->
             calculate_distance_boundary(p.r, p.mu, r_inner[s], r_outer[s])[1],
         distance_trace |->
             calculate_distance_line(
                 p.nu, TimesDoppler(p.nu, p.r, p.mu, time_explosion),
                 nu_line_of(l), time_explosion).distance,
         distance_electron |->
             calculate_distance_electron(electron_density[s],
                                         trace_args.tau_event - tau_before),
         tau_trace_line_combined |-> tau_before + tau_sobolev_of(l, s)]

\* the traced call has returned
Traced == pc[0] = "move" /\ trace_args # NoTraceArgs
\* the loop of the traced call reached line l; it left the loop at line l
TestedLine(l) ==
    /\ trace_args.r_packet.next_line_id <= l
    /\ l < no_of_lines
    /\ trace[0].next_line_id >= l
BrokeAt(l) == TestedLine(l) /\ trace[0].next_line_id = l

(***************************************************************************)
(* Single calls of the functions of r_packet.py: the arguments are drawn   *)
(* when the call is made, the action of the function returns its result.   *)
(***************************************************************************)
Pending(fn, args) == [fn |-> fn, args |-> args, returned |-> FALSE, result |-> <<>>]
Returned(result) == [call EXCEPT !.returned = TRUE, !.result = result]

\* everything but the call
run_vars == <<nthreads, full_relativity, line_interaction_type, no_of_shells, electron_density, tau_sobolev, packet_mus, trace_args, spectra, iteration, cancel_requested, solver_vars, todo, pc, r_packet, trace, est_read, rng, estimator_vars, output_vars, run_state, vpacket_collection, history_vars, seeded_rng>>

\* a position in shell s and a direction: inward, tangential or outward
BoundaryArgs ==
    {<<r, mu, s>> : r \in {10, 12, 15, 20, 25, 30}, mu \in {0 - 1, 0, 1}, s \in 0 .. 1}

BoundaryCalls ==
    {Pending("calculate_distance_boundary", a) :
        a \in {b \in BoundaryArgs : 10 + 10 * b[3] <= b[1] /\ b[1] <= 20 + 10 * b[3]}}

CallDistanceBoundary ==
    /\ call.fn = "calculate_distance_boundary"
    /\ ~call.returned
    /\ LET r == call.args[1]
           mu == call.args[2]
           s == call.args[3]
       IN  call' = Returned(calculate_distance_boundary(r, mu, r_inner[s], r_outer[s]))
    /\ UNCHANGED run_vars

\* a lab and a co-moving frequency of a packet and a line frequency: far
\* from, next to and at the co-moving frequency, or 0
LineArgs ==
    {<<comov_nu + up, comov_nu, nu_line>> :
        up \in {0, 100}, comov_nu \in {900, 20000000},
        nu_line \in {0, 800, 899, 900, 901, 1000, 19999900, 19999998,
                     19999999, 20000000, 20000001, 20000002, 20000100}}

LineCalls ==
    {Pending("calculate_distance_line", a) :
        a \in {b \in LineArgs : b[3] = 0 \/ Abs(b[2] - b[3]) <= 100}}

CallDistanceLine ==
    /\ call.fn = "calculate_distance_line"
    /\ ~call.returned
    /\ call' = Returned(calculate_distance_line(
                            call.args[1], call.args[2], call.args[3],
                            time_explosion))
    /\ UNCHANGED run_vars

\* a new packet: its position, direction and lab frequency
LineIdArgs ==
    {<<r, mu, nu>> : r \in {10, 20}, mu \in {0 - 1, 0, 1},
                     nu \in {700, 800, 850, 900, 1000, 1100}}

LineIdCalls == {Pending("initialize_line_id", a) : a \in LineIdArgs}

CallInitializeLineId ==
    /\ call.fn = "initialize_line_id"
    /\ ~call.returned
    /\ LET p == RPacket(call.args[1], call.args[2], call.args[3],
                        packet_energy, 0)
       IN  call' = Returned(initialize_line_id(p, time_explosion).next_line_id)
    /\ UNCHANGED run_vars

(***************************************************************************)
(* fast_calculate_transition_probabilities (opacities/macro_atom/util.py). *)
(* The arrays are indexed from 0 as in the code.  A probability is a       *)
(* fraction <<numerator, denominator>>, so that the reciprocal of a block  *)
(* sum and the products with it are exact.                                 *)
(***************************************************************************)
NoOfTransitions == 3
Transitions == 0 .. (NoOfTransitions - 1)
MacroShells == 0 .. 1

\* transition_probability_coef[i] * beta_sobolev[line_idx, j], times
\* stimulated_emission_factor[line_idx, j] * j_blues[line_idx, j] for a
\* transition of type 1
UnnormalizedProbability(a, i, j) ==
    LET line_idx == a.lines_idx[i]
        p == a.transition_probability_coef[i] * a.beta_sobolev[line_idx][j]
    IN  IF a.transition_type[i] = 1
        THEN p * (a.stimulated_emission_factor[line_idx][j]
                     * a.j_blues[line_idx][j])
        ELSE p

\* block_references.shape[0] - 1
Blocks(a) == 0 .. (Cardinality(DOMAIN a.block_references) - 2)

\* the rows of block i
BlockRows(a, i) ==
    {j \in Transitions : a.block_references[i] <= j /\ j < a.block_references[i + 1]}

\* faulty variant of NormFactor: norm_factor is not set back to zero for a new
\* block
NormFactorCarriedOver(a, i, k) ==
    LET rows == {j \in Transitions : j < a.block_references[i + 1]}
        total == SumOver([j \in Transitions |-> UnnormalizedProbability(a, j, k)], rows)
    IN  IF total # 0 THEN <<1, total>> ELSE <<1, 1>>

\* norm_factor[k] of block i: the reciprocal of the block sum, or 1.0
NormFactor(a, i, k) ==
    LET total == SumOver([j \in Transitions |-> UnnormalizedProbability(a, j, k)], BlockRows(a, i))
    IN  IF total # 0 THEN <<1, total>> ELSE <<1, 1>>

\* the array transition_probabilities after the call
fast_calculate_transition_probabilities(a) ==
    [i \in Transitions |->
        [k \in MacroShells |->
            LET p == UnnormalizedProbability(a, i, k)
                blocks == {b \in Blocks(a) : i \in BlockRows(a, b)}
            IN  IF a.normalize /\ blocks # {}
                THEN LET f == NormFactor(a, CHOOSE b \in blocks : TRUE, k)
                     IN  <<p * f[1], f[2]>>
                ELSE <<p, 1>>]]

\* block_references as the code reads it: block_references[i], i from 0
ZeroBased(seq) == [i \in 0 .. (Len(seq) - 1) |-> seq[i + 1]]

TransitionArgs ==
    {[transition_probability_coef |-> coef,
      beta_sobolev |-> ZeroBased(<<ZeroBased(<<1, 0>>), ZeroBased(<<2, 1>>)>>),
      j_blues |-> ZeroBased(<<ZeroBased(<<1, 3>>), ZeroBased(<<0, 2>>)>>),
      stimulated_emission_factor |->
          ZeroBased(<<ZeroBased(<<1, 1>>), ZeroBased(<<2, 1>>)>>),
      transition_type |-> ZeroBased(types),
      lines_idx |-> ZeroBased(<<0, 1, 0>>),
      block_references |-> ZeroBased(refs),
      normalize |-> normalize] :
        coef \in [Transitions -> {0, 1, 2}],
        types \in {<<0 - 1, 0, 1>>, <<1, 1, 0 - 1>>},
        refs \in {<<0, 2, 3>>, <<0, 1, 3>>},
        normalize \in BOOLEAN}

TransitionCalls ==
    {Pending("fast_calculate_transition_probabilities", <<a>>) : a \in TransitionArgs}

CallTransitionProbabilities ==
    /\ call.fn = "fast_calculate_transition_probabilities"
    /\ ~call.returned
    /\ call' = Returned(fast_calculate_transition_probabilities(call.args[1]))
    /\ UNCHANGED run_vars

PendingCalls == BoundaryCalls \cup LineCalls \cup LineIdCalls \cup TransitionCalls

InitCalls ==
    /\ full_relativity = FALSE
    /\ line_interaction_type = "scatter"
    /\ StandardInputs
    /\ compute = "CPU"
    /\ cuda_available = FALSE
    /\ solver = NoSolver
    /\ transport_state = NoTransportState
    /\ integrator_access = NoAccess
    /\ nthreads = 1
    /\ iteration = 0
    /\ cancel_requested = FALSE
    /\ rng = [w \in Workers |-> 0]
    /\ todo = {}
    /\ pc = [w \in Workers |-> "idle"]
    /\ r_packet = [w \in Workers |-> NoPacket]
    /\ trace = [w \in Workers |-> NoTrace]
    /\ est_read = [w \in Workers |-> <<0, 0>>]
    /\ j_estimator = [s \in Shells |-> 0]
    /\ nu_bar_estimator = [s \in Shells |-> 0]
    /\ output_nus = <<>>
    /\ output_energies = <<>>
    /\ storage_output_nus = <<>>
    /\ storage_output_energies = <<>>
    /\ run_state = "running"
    /\ vpacket_collection = [w \in Workers |-> <<>>]
    /\ j_sum = [s \in Shells |-> 0]
    /\ nu_bar_sum = [s \in Shells |-> 0]
    /\ n_volleys = [w \in Workers |-> 0]
    /\ n_interactions = [w \in Workers |-> 0]
    /\ last_event = [w \in Workers |-> "none"]
    /\ seeded_rng = [w \in Workers |-> 0]
    /\ trace_args = NoTraceArgs
    /\ spectra = NoSpectra
    /\ call \in PendingCalls

NextCalls ==
    \/ CallDistanceBoundary
    \/ CallDistanceLine
    \/ CallInitializeLineId
    \/ CallTransitionProbabilities

SpecCalls == InitCalls /\ [][NextCalls]_vars

(***************************************************************************)
(* Properties.                                                             *)
(***************************************************************************)
\* worker w is inside single_packet_loop, past the packet's initialization
InPacket(w) == pc[w] \in {"volley", "loop", "move", "move_write", "event"}

\* worker w has finished a packet and written its outputs
Finished(w) == pc[w] = "idle" /\ r_packet[w].index >= 0

\* C1: every packet the driver has processed ended EMITTED or REABSORBED; its
\* output energy is the packet's energy, positive, when EMITTED and the
\* negated energy, negative, when REABSORBED; no processed packet lacks an
\* output entry, and the arrays copied to the storage model are complete.
C1_StatusAndSign ==
    /\ \A w \in Workers :
          Finished(w) =>
             LET p == r_packet[w]
             IN  /\ p.status \in {EMITTED, REABSORBED}
                 /\ p.index \in DOMAIN output_energies
                 /\ p.status = EMITTED =>
                       /\ output_energies[p.index] = p.energy
                       /\ output_energies[p.index] > 0
                 /\ p.status = REABSORBED =>
                       /\ output_energies[p.index] = 0 - p.energy
                       /\ output_energies[p.index] < 0
    /\ DOMAIN output_energies = DOMAIN output_nus
    /\ run_state = "done" =>
          /\ DOMAIN storage_output_energies = Packets
          /\ DOMAIN storage_output_nus = Packets

C1_Witness ==
    /\ run_state = "done"
    /\ \E i \in Packets : storage_output_energies[i] > 0
    /\ \E i \in Packets : storage_output_energies[i] < 0

\* C2: when a MonteCarloException is raised while a packet is transported,
\* the run goes on, and the packet's outputs are the sentinel nu = -1, E = 0.
C2_SentinelAndContinue ==
    \A w \in Workers :
       pc[w] = "raised" =>
          /\ run_state = "running"
          /\ r_packet[w].index \in DOMAIN output_nus
          /\ r_packet[w].index \in DOMAIN output_energies
          /\ output_nus[r_packet[w].index] = 0 - 1
          /\ output_energies[r_packet[w].index] = 0

\* C3: the draws a packet consumes are those of a generator seeded from
\* (base_seed, iteration, packet_index): while a worker transports a packet,
\* its generator is in the state of the packet's own seeded generator.
C3_DrawsFromPacketSeed ==
    \A w \in Workers : InPacket(w) => rng[w] = seeded_rng[w]

\* C4: when the run is done, J and nu_bar of every shell are the sums of the
\* contributions of all flight segments made in the shell (no lost update).
C4_NoLostUpdate ==
    run_state = "done" =>
       \A s \in Shells : /\ j_estimator[s] = j_sum[s]
                         /\ nu_bar_estimator[s] = nu_bar_sum[s]

\* C5: a boundary crossing with delta_shell = +1 in the last shell gives
\* EMITTED, with delta_shell = -1 in shell 0 gives REABSORBED, both with the
\* shell index unchanged; every other crossing changes the shell index by
\* delta_shell and leaves the status IN_PROCESS.
C5_BoundaryCrossing ==
    [][\A w \in Workers :
          (pc[w] = "event" /\ pc'[w] = "loop") =>
             LET p == r_packet[w]
                 q == r_packet'[w]
                 d == trace[w].delta_shell
             IN  IF d = 1 /\ p.current_shell_id = no_of_shells - 1
                 THEN /\ q.status = EMITTED
                      /\ q.current_shell_id = p.current_shell_id
                 ELSE IF d = 0 - 1 /\ p.current_shell_id = 0
                 THEN /\ q.status = REABSORBED
                      /\ q.current_shell_id = p.current_shell_id
                 ELSE /\ q.status = IN_PROCESS
                      /\ q.current_shell_id = p.current_shell_id + d]_vars

C5_Witness ==
    /\ \E w \in Workers :
          /\ pc[w] = "loop"
          /\ last_event[w] = "boundary"
          /\ r_packet[w].status = REABSORBED
    /\ \E i \in DOMAIN output_energies : output_energies[i] > 0

\* C6: while a packet is IN_PROCESS, after its initialization and after any
\* boundary, electron-scatter and line events, its shell index is in
\* [0, S) and its line index in [0, L].
C6_IndexRanges ==
    \A w \in Workers :
       (InPacket(w) /\ r_packet[w].status = IN_PROCESS) =>
          /\ r_packet[w].current_shell_id \in 0 .. (no_of_shells - 1)
          /\ r_packet[w].next_line_id \in 0 .. no_of_lines

C6_Witness ==
    \E w \in Workers :
       /\ pc[w] = "move"
       /\ r_packet[w].status = IN_PROCESS
       /\ n_interactions[w] > 0
       /\ r_packet[w].current_shell_id = no_of_shells - 1
       /\ r_packet[w].next_line_id = no_of_lines

\* C7: one volley after the packet's initialization and one after each
\* interaction, dispatched after the handler has updated the packet (the
\* virtual packets carry the packet's new frequency), and none after a
\* boundary crossing.
C7_VolleyCount ==
    \A w \in Workers :
       /\ pc[w] = "volley" => n_volleys[w] = n_interactions[w]
       /\ pc[w] \in {"loop", "move", "move_write", "event"} =>
             n_volleys[w] = 1 + n_interactions[w]
       /\ InPacket(w) =>
             Len(vpacket_collection[w]) = n_volleys[w] * number_of_vpackets
       /\ last_event[w] = "volley" =>
             vpacket_collection[w][Len(vpacket_collection[w])].nu
                 = r_packet[w].nu

C7_VolleyOnlyAfterInteraction ==
    \A w \in Workers :
       n_volleys'[w] = n_volleys[w] + 1 =>
          last_event[w] \in {"init", LINE, ESCATTERING, CONTINUUM_PROCESS}

C7_Volleys == [](C7_VolleyCount) /\ [][C7_VolleyOnlyAfterInteraction]_vars

C7_Witness ==
    \E w \in Workers :
       /\ pc[w] = "loop"
       /\ last_event[w] = "boundary"
       /\ n_interactions[w] >= 1
       /\ n_volleys[w] >= 2

C9_MonotoneLineId ==
    [][\A w \in Workers :
          (\/ pc[w] \in {"loop", "move", "move_write"}
           \/ (pc[w] = "event" /\ trace[w].interaction_type = BOUNDARY)) =>
             r_packet'[w].next_line_id >= r_packet[w].next_line_id]_vars

C9_Witness ==
    \E w \in Workers :
       /\ pc[w] = "move"
       /\ last_event[w] = "boundary"
       /\ r_packet[w].current_shell_id > 0
       /\ r_packet[w].next_line_id > 0
       /\ trace[w].interaction_type = BOUNDARY

\* C10: the energy of a packet is positive at every step of its transport;
\* a reabsorbed packet keeps its positive energy and only the value in the
\* output array is negated.
C10_PacketEnergyPositive ==
    \A w \in Workers :
       /\ r_packet[w].index >= 0 => r_packet[w].energy > 0
       /\ (Finished(w) /\ r_packet[w].status = REABSORBED) =>
             output_energies[r_packet[w].index] = 0 - r_packet[w].energy

C10_Witness ==
    \E w \in Workers :
       /\ Finished(w)
       /\ r_packet[w].status = REABSORBED
       /\ n_interactions[w] >= 1

C12_ShellContainment ==
    \A w \in Workers :
       LET p == r_packet[w]
           s == p.current_shell_id
       IN  /\ InPacket(w) => (r_inner[s] <= p.r /\ p.r <= r_outer[s])
           /\ pc[w] \in {"move", "move_write"} =>
                 /\ trace[w].distance >= 0
                 /\ trace[w].distance <=
                       calculate_distance_boundary(p.r, p.mu, r_inner[s],
                                                   r_outer[s])[1]

C12_Witness ==
    \E w \in Workers :
       LET p == r_packet[w]
           s == p.current_shell_id
       IN  /\ pc[w] = "event"
           /\ trace[w].interaction_type \in {LINE, ESCATTERING}
           /\ trace[w].distance > 0
           /\ s > 0
           /\ r_inner[s] < p.r
           /\ p.r < r_outer[s]

\* C13: once cancel has been requested while packets remain to be started,
\* the run stops before the loop is through: it does not end as a normal
\* run and no outputs are handed to the storage model.
C13_CancelStopsRun ==
    cancel_requested =>
       /\ run_state # "done"
       /\ storage_output_nus = <<>>
       /\ storage_output_energies = <<>>

\* C14: from_config raises ValueError and makes no solver when the compute
\* mode is GPU and there is no CUDA device, and when the mode is none of
\* GPU, AUTOMATIC, CPU in any letter case; AUTOMATIC and CPU never raise;
\* use_gpu is true exactly for GPU or AUTOMATIC with a CUDA device.
C14_ComputeMode ==
    solver.called =>
       LET gpu == compute \in {"GPU", "gpu", "Gpu"}
           automatic == compute \in {"AUTOMATIC", "Automatic", "automatic"}
           cpu == compute \in {"CPU", "cpu"}
       IN  /\ (gpu /\ ~cuda_available) => solver.raised
           /\ ~(gpu \/ automatic \/ cpu) => solver.raised
           /\ (automatic \/ cpu) => ~solver.raised
           /\ (gpu /\ cuda_available) => ~solver.raised
           /\ solver.raised => ~solver.constructed
           /\ ~solver.raised =>
                 /\ solver.constructed
                 /\ solver.use_gpu = ((gpu \/ automatic) /\ cuda_available)

C14_Witness ==
    /\ solver.called
    /\ solver.raised
    /\ ~solver.constructed
    /\ compute = "gpu"
    /\ ~cuda_available

\* C15: with full relativity enabled, every read of an integrator property,
\* on the solver and on the transport state, before and after a run, raises
\* NotImplementedError.
C15_NoIntegratorInFullRelativity ==
    (full_relativity /\ integrator_access.by # "nobody") =>
       integrator_access.outcome = "NotImplementedError"

\* every packet of the run is launched inward
AllInward == \A i \in Packets : packet_mus[i] = 0 - 1

\* C16 as stated: in a shell without opacity, with every packet launched
\* inward at r_inner[0], the J estimator after the run is the sum over the
\* packets of E_initial * 2 * r_inner[0].
C16_ChordLength ==
    (run_state = "done" /\ AllInward) =>
       j_estimator[0] = NoOfPackets * packet_energy * 2 * r_inner[0]

\* C16 amended: in a shell without opacity, a packet launched inward at
\* r_inner[0] is at the inner boundary already: its only flight has length
\* 0, it ends REABSORBED without an interaction, and it adds nothing to J
\* and nu_bar, which are 0 after a run of such packets.
C16_ReabsorbedAtLaunch ==
    /\ \A w \in Workers :
          (Finished(w) /\ packet_mus[r_packet[w].index] = 0 - 1) =>
             /\ r_packet[w].status = REABSORBED
             /\ r_packet[w].r = r_inner[0]
             /\ trace[w].distance = 0
             /\ n_interactions[w] = 0
             /\ output_energies[r_packet[w].index] < 0
    /\ AllInward => (j_estimator[0] = 0 /\ nu_bar_estimator[0] = 0)

C16_Witness ==
    /\ run_state = "done"
    /\ AllInward
    /\ \A i \in Packets : storage_output_energies[i] < 0

\* C17: in a shell without opacity a packet launched outward has boundary
\* events only, the first of them ends it EMITTED, its frequency stays the
\* lab-frame frequency it had at launch (the one its first volley saw), and
\* that frequency is written to the output.
C17_OutwardInv ==
    \A w \in Workers :
       (r_packet[w].index >= 0 /\ packet_mus[r_packet[w].index] > 0) =>
          /\ pc[w] \in {"move", "move_write", "event"} =>
                trace[w].interaction_type = BOUNDARY
          /\ pc[w] \in {"loop", "move", "move_write", "event"} =>
                r_packet[w].nu = vpacket_collection[w][1].nu
          /\ Finished(w) =>
                /\ r_packet[w].status = EMITTED
                /\ n_interactions[w] = 0
                /\ output_nus[r_packet[w].index] = vpacket_collection[w][1].nu
                /\ output_energies[r_packet[w].index] > 0

C17_FirstBoundaryEmits ==
    \A w \in Workers :
       (pc[w] = "event" /\ pc'[w] = "loop"
          /\ packet_mus[r_packet[w].index] > 0) =>
             r_packet'[w].status = EMITTED

C17_OutwardEmitted == [](C17_OutwardInv) /\ [][C17_FirstBoundaryEmits]_vars

C17_Witness ==
    /\ run_state = "done"
    /\ \E i \in Packets : packet_mus[i] > 0 /\ storage_output_energies[i] > 0
    /\ \E i \in Packets : packet_mus[i] < 0

\* the number of samples a histogram of nus counts
Counted(nus) ==
    SumOver(Histogram(nus, [i \in DOMAIN nus |-> 1]), 1 .. NoOfBins)

\* C18 as stated: every packet of a finished run contributes to exactly one
\* of the emitted and reabsorbed luminosity histograms.
C18_EveryPacketInOneHistogram ==
    run_state = "done" =>
       Counted(emitted_packet_nu) + Counted(reabsorbed_packet_nu) = NoOfPackets

\* C18 amended: after a run the emitted and the reabsorbed packets partition
\* the packets, emitted being output energy >= 0 and reabsorbed < 0; every
\* reabsorbed luminosity, per packet and per bin, is non-negative; a packet
\* is counted in exactly one histogram when its output nu lies within the
\* spectrum's bin edges and in none otherwise.
C18_MaskPartition ==
    run_state = "done" =>
       LET emitted == DOMAIN emitted_packet_nu
           reabsorbed == DOMAIN reabsorbed_packet_nu
           first == spectrum_frequency[1]
           last == spectrum_frequency[NoOfBins + 1]
       IN  /\ emitted \cup reabsorbed = Packets
           /\ emitted \cap reabsorbed = {}
           /\ \A i \in Packets :
                 /\ i \in emitted <=> storage_output_energies[i] >= 0
                 /\ i \in reabsorbed <=> storage_output_energies[i] < 0
           /\ DOMAIN emitted_packet_luminosity = emitted
           /\ DOMAIN reabsorbed_packet_luminosity = reabsorbed
           /\ \A i \in reabsorbed : reabsorbed_packet_luminosity[i] >= 0
           /\ \A k \in 1 .. NoOfBins :
                 /\ montecarlo_reabsorbed_luminosity[k] >= 0
                 /\ montecarlo_emitted_luminosity[k] >= 0
           /\ Counted(emitted_packet_nu) + Counted(reabsorbed_packet_nu)
                 = Cardinality({i \in Packets :
                                   /\ storage_output_nus[i] >= first
                                   /\ storage_output_nus[i] <= last})
           /\ SumOver(montecarlo_emitted_luminosity, 1 .. NoOfBins)
                 + SumOver(montecarlo_reabsorbed_luminosity, 1 .. NoOfBins)
                 = SumOver([i \in Packets |->
                              Abs(storage_output_energies[i])],
                           {i \in Packets :
                               /\ storage_output_nus[i] >= first
                               /\ storage_output_nus[i] <= last})

C18_Witness ==
    /\ run_state = "done"
    /\ \E i \in Packets : /\ storage_output_energies[i] >= 0
                          /\ \E k \in 1 .. NoOfBins :
                                InBin(storage_output_nus[i], k)
    /\ \E i \in Packets : /\ storage_output_energies[i] < 0
                          /\ storage_output_nus[i] < spectrum_frequency[1]

\* C19: at a tested line, a boundary distance equal to the smaller of the
\* other two gives BOUNDARY, and an electron distance equal to the line
\* distance and below the boundary distance gives ESCATTERING, not LINE.
C19_TiePriority ==
    Traced =>
       \A l \in 0 .. (no_of_lines - 1) :
          TestedLine(l) =>
             LET d == LineUnderTest(l)
             IN  /\ (/\ d.distance_boundary <= d.distance_trace
                     /\ d.distance_boundary <= d.distance_electron
                     /\ \/ d.distance_boundary = d.distance_trace
                        \/ d.distance_boundary = d.distance_electron)
                       => trace[0].interaction_type = BOUNDARY
                 /\ (/\ d.distance_electron = d.distance_trace
                     /\ d.distance_trace < d.distance_boundary)
                       => trace[0].interaction_type = ESCATTERING

\* the two tests that come before the line test
BoundaryOrScatterAt(l) ==
    LET d == LineUnderTest(l)
    IN  \/ /\ d.distance_boundary <= d.distance_trace
           /\ d.distance_boundary <= d.distance_electron
        \/ /\ d.distance_electron < d.distance_trace
           /\ d.distance_electron < d.distance_boundary

\* C20 as stated: at a tested line where neither the boundary nor the
\* scatter condition holds, LINE is selected exactly when the Sobolev
\* optical depth summed over the lines walked exceeds tau_event.
C20_LineWhenSobolevExceeds ==
    Traced =>
       \A l \in 0 .. (no_of_lines - 1) :
          (TestedLine(l) /\ ~BoundaryOrScatterAt(l)) =>
             ((BrokeAt(l) /\ trace[0].interaction_type = LINE)
                <=> LineUnderTest(l).tau_trace_line_combined
                       > trace_args.tau_event)

\* C20 amended: at a tested line where neither the boundary nor the scatter
\* condition holds, LINE is selected exactly when the Sobolev optical depth
\* summed over the lines walked plus the electron optical depth
\* n_e * sigma_T * d_line up to the line exceeds tau_event.
C20_LineWhenCombinedExceeds ==
    Traced =>
       \A l \in 0 .. (no_of_lines - 1) :
          (TestedLine(l) /\ ~BoundaryOrScatterAt(l)) =>
             LET d == LineUnderTest(l)
                 s == trace_args.r_packet.current_shell_id
             IN  (BrokeAt(l) /\ trace[0].interaction_type = LINE)
                    <=> d.tau_trace_line_combined
                           + electron_density[s] * SIGMA_THOMSON
                                * d.distance_trace
                        > trace_args.tau_event

C20_Witness ==
    /\ Traced
    /\ trace[0].interaction_type = LINE
    /\ \E l \in 1 .. (no_of_lines - 1) :
          /\ BrokeAt(l)
          /\ trace_args.r_packet.next_line_id < l
          /\ ~BoundaryOrScatterAt(l)
          /\ LineUnderTest(l).tau_trace_line_combined <= trace_args.tau_event

\* the traced call left its loop without a break: it was started at or past
\* the end of the line list, or it tested the last line and went on
WalkedPastLastLine ==
    /\ Traced
    /\ \A l \in 0 .. (no_of_lines - 1) : ~BrokeAt(l)

\* C21: a trace that walks past the last line without selecting an event
\* (or starts with next_line_id = L) has a remaining budget, tau_event minus
\* the Sobolev depths passed, that is not negative; it returns ESCATTERING
\* at the electron distance of that budget when this is strictly below the
\* boundary distance and BOUNDARY at the boundary distance otherwise, and it
\* leaves next_line_id = L.
C21_FallThrough ==
    WalkedPastLastLine =>
       LET p == trace_args.r_packet
           s == p.current_shell_id
           remaining == trace_args.tau_event
                           - TauSobolevWalked(p.next_line_id,
                                              no_of_lines - 1, s)
           d_scatter == IF electron_density[s] = 0 THEN 2 * MISS_DISTANCE
                        ELSE remaining \div (electron_density[s] * SIGMA_THOMSON)
           d_boundary == LineUnderTest(no_of_lines - 1).distance_boundary
       IN  /\ remaining >= 0
           /\ trace[0].next_line_id = no_of_lines
           /\ r_packet[0].next_line_id = no_of_lines
           /\ IF d_scatter < d_boundary
              THEN /\ trace[0].interaction_type = ESCATTERING
                   /\ trace[0].distance = d_scatter
              ELSE /\ trace[0].interaction_type = BOUNDARY
                   /\ trace[0].distance = d_boundary

\* a line of positive optical depth was walked past and the recomputed
\* electron distance is the boundary distance
C21_Witness ==
    /\ WalkedPastLastLine
    /\ trace_args.r_packet.next_line_id < no_of_lines
    /\ LET p == trace_args.r_packet
           s == p.current_shell_id
           walked == TauSobolevWalked(p.next_line_id, no_of_lines - 1, s)
       IN  /\ walked > 0
           /\ electron_density[s] > 0
           /\ (trace_args.tau_event - walked)
                 \div (electron_density[s] * SIGMA_THOMSON)
              = trace[0].distance
    /\ trace[0].interaction_type = BOUNDARY
    /\ trace[0].distance > 0

\* C22: calculate_distance_boundary returns delta_shell = -1 with the inward
\* distance -r*mu - sqrt(D), D = r_inner^2 + (mu^2 - 1) r^2, exactly when
\* mu < 0 and D >= 0; in every other case, mu = 0 included, it returns
\* delta_shell = +1 with the outward distance; delta_shell is never 0.
C22_DeltaShell ==
    (call.fn = "calculate_distance_boundary" /\ call.returned) =>
       LET r == call.args[1]
           mu == call.args[2]
           s == call.args[3]
           D == r_inner[s] * r_inner[s] + (mu * mu - 1) * r * r
           distance == call.result[1]
           delta_shell == call.result[2]
       IN  /\ delta_shell # 0
           /\ delta_shell = 0 - 1 <=> (mu < 0 /\ D >= 0)
           /\ IF mu < 0 /\ D >= 0
              THEN distance = (0 - r) * mu - Sqrt(D)
              ELSE /\ delta_shell = 1
                   /\ distance = Sqrt(r_outer[s] * r_outer[s]
                                      + (mu * mu - 1) * r * r) - r * mu

\* C23: calculate_distance_line, with nu_diff = comov_nu - nu_line: when
\* |nu_diff| / comov_nu < 1e-7 the distance returned is 0, also for a
\* nu_diff slightly below zero; when nu_diff is below zero beyond that
\* threshold the exception is raised; otherwise the distance returned is
\* not negative (and is nu_diff / nu * c * t for a line frequency not 0).
C23_CloseLineClamp ==
    (call.fn = "calculate_distance_line" /\ call.returned) =>
       LET nu == call.args[1]
           comov_nu == call.args[2]
           nu_line == call.args[3]
           nu_diff == comov_nu - nu_line
           close == Abs(nu_diff) * CLOSE_LINE_THRESHOLD_INV < Abs(comov_nu)
       IN  IF nu_line # 0 /\ close
           THEN ~call.result.raised /\ call.result.distance = 0
           ELSE IF nu_diff < 0
           THEN call.result.raised
           ELSE /\ ~call.result.raised
                /\ call.result.distance >= 0
                /\ nu_line # 0 =>
                      call.result.distance
                         = (nu_diff * C_SPEED_OF_LIGHT * time_explosion) \div nu

\* a line frequency just above the co-moving frequency, within the threshold
C23_Witness ==
    /\ call.fn = "calculate_distance_line"
    /\ call.returned
    /\ call.args[2] - call.args[3] < 0
    /\ ~call.result.raised
    /\ call.result.distance = 0

\* worker w is in move_rpacket in this step
Moving(w) ==
    /\ pc[w] \in {"move", "move_write"}
    /\ pc'[w] \in {"move_write", "event"}
    /\ pc'[w] # pc[w]

\* C24: a free-flight move changes only r and mu of the packet and the
\* estimators of the packet's current shell: nu, energy, current_shell_id,
\* next_line_id, status and index of the packet, the estimators of every
\* other shell, the outputs and the virtual packets stay as they are; with
\* distance 0, r and mu stay too.
C24_MoveFrame ==
    [][\A w \in Workers :
          Moving(w) =>
             LET p == r_packet[w]
                 q == r_packet'[w]
             IN  /\ q.nu = p.nu
                 /\ q.energy = p.energy
                 /\ q.current_shell_id = p.current_shell_id
                 /\ q.next_line_id = p.next_line_id
                 /\ q.status = p.status
                 /\ q.index = p.index
                 /\ \A s \in Shells \ {p.current_shell_id} :
                       /\ j_estimator'[s] = j_estimator[s]
                       /\ nu_bar_estimator'[s] = nu_bar_estimator[s]
                 /\ trace[w].distance = 0 => (q.r = p.r /\ q.mu = p.mu)
                 /\ UNCHANGED <<output_vars, vpacket_collection, trace, rng,
                                todo, run_state>>]_vars

\* a move of distance 0 has been made in the upper shell, after flights
\* that scored in the lower shell
C24_Witness ==
    \E w \in Workers :
       /\ pc[w] = "event"
       /\ trace[w].distance = 0
       /\ r_packet[w].current_shell_id = 1
       /\ j_estimator[0] > 0

\* C25: the estimator contribution of a flight segment, J += E*D*d and
\* nu_bar += E*D*d*nu*D, is computed from r, mu, nu and E of the packet
\* before the move and goes to the shell the packet is in during the
\* segment; current_shell_id changes only in the boundary crossing that
\* follows the move, and that step leaves the estimators alone.
C25_PreMoveEstimators ==
    [][\A w \in Workers :
          /\ (pc[w] = "move_write" /\ pc'[w] = "event") =>
                LET p == r_packet[w]
                    s == p.current_shell_id
                    d == trace[w].distance
                    den == time_explosion * C_SPEED_OF_LIGHT
                    E_D == (p.energy * (den - p.mu * p.r)) \div den
                    nu_D == (p.nu * (den - p.mu * p.r)) \div den
                IN  /\ j_estimator'[s] = j_estimator[s] + E_D * d
                    /\ nu_bar_estimator'[s]
                          = nu_bar_estimator[s] + E_D * d * nu_D
                    /\ r_packet'[w].current_shell_id = s
          /\ (/\ r_packet'[w].index = r_packet[w].index
              /\ r_packet'[w].current_shell_id # r_packet[w].current_shell_id)
                => /\ pc[w] = "event"
                   /\ trace[w].interaction_type = BOUNDARY
                   /\ r_packet'[w].current_shell_id
                         = r_packet[w].current_shell_id + trace[w].delta_shell
                   /\ r_packet'[w].r = r_packet[w].r
                   /\ UNCHANGED <<j_estimator, nu_bar_estimator>>]_vars

\* a packet has crossed into the upper shell and its flight through the
\* lower shell is in the estimators of the lower shell only
C25_Witness ==
    \E w \in Workers :
       /\ pc[w] = "loop"
       /\ last_event[w] = "boundary"
       /\ r_packet[w].current_shell_id = 1
       /\ j_estimator[0] > 0
       /\ nu_bar_estimator[0] > 0
       /\ j_estimator[1] = 0

\* the co-moving frequency of the packet of an initialize_line_id call
CallComovNu ==
    (call.args[3] * (time_explosion * C_SPEED_OF_LIGHT
                        - call.args[2] * call.args[1]))
       \div (time_explosion * C_SPEED_OF_LIGHT)

\* C26: after initialize_line_id on the line list in descending frequency,
\* every line with index >= next_line_id is below the co-moving frequency
\* and every line with index < next_line_id is at or above it, so the
\* distance to the line at next_line_id is computed from a nu_diff that is
\* not negative and nothing is raised.
C26_LineIdSplitsList ==
    (call.fn = "initialize_line_id" /\ call.returned) =>
       LET next_line_id == call.result
           lines_below == {l \in 0 .. (no_of_lines - 1) :
                              line_list_nu[l + 1] < CallComovNu}
       IN  /\ next_line_id \in 0 .. no_of_lines
           /\ next_line_id = no_of_lines - Cardinality(lines_below)
           /\ \A l \in 0 .. (no_of_lines - 1) :
                 /\ l >= next_line_id => line_list_nu[l + 1] < CallComovNu
                 /\ l < next_line_id => line_list_nu[l + 1] >= CallComovNu
           /\ next_line_id < no_of_lines =>
                 /\ CallComovNu - line_list_nu[next_line_id + 1] >= 0
                 /\ ~calculate_distance_line(
                         call.args[3], CallComovNu,
                         line_list_nu[next_line_id + 1],
                         time_explosion).raised

\* the co-moving frequency is the frequency of the first line: the line
\* index is set past that line and the second line is still ahead
C26_Witness ==
    /\ call.fn = "initialize_line_id"
    /\ call.returned
    /\ CallComovNu = line_list_nu[1]
    /\ call.result = 1
    /\ call.result < no_of_lines

\* worker w's packet has a line interaction in this step
LineInteraction(w) ==
    /\ pc[w] = "event"
    /\ trace[w].interaction_type = LINE
    /\ pc'[w] = "volley"

\* worker w's packet is traced in this step, with a tau_event drawn from the
\* worker's generator in this step
TracedWithFreshTau(w) ==
    (pc[w] = "loop" /\ pc'[w] = "move") =>
       /\ trace'[w] = trace_packet(r_packet[w], time_explosion,
                                   RandomExponential(rng[w]))
       /\ rng'[w] = RngStep(rng[w])

\* C27: after a line interaction that emits in line l_em the co-moving
\* frequency of the packet at its r and mu is nu_line[l_em] (the lab
\* frequency stored is nu_line[l_em] / D, to the resolution of the
\* arithmetic), next_line_id is l_em + 1, which may be L, and the next trace
\* samples a fresh tau_event.
C27_EmittedAtLine ==
    [][\A w \in Workers :
          /\ LineInteraction(w) =>
                LET l_em == EmissionLine(r_packet[w], line_interaction_type,
                                         rng[w])
                    q == r_packet'[w]
                    den == time_explosion * C_SPEED_OF_LIGHT
                    D == den - q.mu * q.r
                IN  /\ q.nu * D <= line_list_nu[l_em + 1] * den
                    /\ line_list_nu[l_em + 1] * den < (q.nu + 1) * D
                    /\ q.next_line_id = l_em + 1
                    /\ q.next_line_id \in 1 .. no_of_lines
                    /\ q.r = r_packet[w].r
                    /\ q.current_shell_id = r_packet[w].current_shell_id
          /\ TracedWithFreshTau(w)]_vars

\* a line interaction has emitted in the last line: the packet has the lab
\* frequency of that line at its r and mu and no line ahead
C27_Witness ==
    \E w \in Workers :
       /\ pc[w] = "volley"
       /\ last_event[w] = LINE
       /\ r_packet[w].next_line_id = no_of_lines
       /\ r_packet[w].nu # line_list_nu[no_of_lines]
       /\ r_packet[w].nu
             = (line_list_nu[no_of_lines] * time_explosion * C_SPEED_OF_LIGHT)
                  \div (time_explosion * C_SPEED_OF_LIGHT
                           - r_packet[w].mu * r_packet[w].r)

\* C28: the initialization of a packet runs once, before the first trace:
\* nu and energy are multiplied by the same inverse Doppler factor; mu is
\* kept in partial relativity and set to (mu + beta) / (1 + beta * mu) in
\* full relativity; next_line_id is looked up with the adjusted packet; the
\* first volley comes right after the initialization and before any trace.
C28_InitOnceBeforeTrace ==
    [][\A w \in Workers :
          /\ (pc[w] = "init" /\ pc'[w] # "init") =>
                LET p == r_packet[w]
                    q == r_packet'[w]
                    den == time_explosion * C_SPEED_OF_LIGHT
                    D == den - p.mu * p.r
                    comov_nu == (q.nu * (den - q.mu * q.r)) \div den
                IN  /\ pc'[w] = "volley"
                    /\ q.nu = (p.nu * den) \div D
                    /\ q.energy = (p.energy * den) \div D
                    /\ q.mu = IF full_relativity
                              THEN (p.mu * den + p.r) \div (den + p.r * p.mu)
                              ELSE p.mu
                    /\ q.r = p.r
                    /\ q.next_line_id
                          = no_of_lines
                               - Cardinality({l \in 0 .. (no_of_lines - 1) :
                                                 line_list_nu[l + 1] < comov_nu})
                    /\ n_volleys[w] = 0
                    /\ vpacket_collection'[w] = <<>>
          /\ (pc'[w] = "init" /\ pc[w] # "init") =>
                /\ pc[w] = "idle"
                /\ r_packet'[w].index \in todo
          /\ (pc[w] = "volley" /\ pc'[w] # "volley" /\ n_volleys[w] = 0) =>
                /\ last_event[w] = "init"
                /\ n_volleys'[w] = 1
          /\ (pc[w] = "loop" /\ pc'[w] = "move") => n_volleys[w] >= 1]_vars

\* a packet in full relativity has been brought into the lab frame and has
\* its line index, and no volley has been made for it yet
C28_Witness ==
    \E w \in Workers :
       /\ pc[w] = "volley"
       /\ last_event[w] = "init"
       /\ full_relativity
       /\ n_volleys[w] = 0
       /\ r_packet[w].nu > packet_nus[r_packet[w].index]
       /\ r_packet[w].energy > packet_energy
       /\ r_packet[w].next_line_id = 0

\* the sum of fractions f[j], j in S, as a fraction
RECURSIVE FractionSum(_, _)
FractionSum(f, S) ==
    IF S = {} THEN <<0, 1>>
    ELSE LET j == CHOOSE x \in S : TRUE
             rest == FractionSum(f, S \ {j})
         IN  <<f[j][1] * rest[2] + rest[1] * f[j][2], f[j][2] * rest[2]>>

\* the sum over block i of what the coefficients give in shell k, before any
\* normalization
BlockTotal(a, i, k) ==
    SumOver([j \in Transitions |->
                a.transition_probability_coef[j]
                   * a.beta_sobolev[a.lines_idx[j]][k]
                   * (IF a.transition_type[j] = 1
                      THEN a.stimulated_emission_factor[a.lines_idx[j]][k]
                              * a.j_blues[a.lines_idx[j]][k]
                      ELSE 1)],
            {j \in Transitions : a.block_references[i] <= j
                                   /\ j < a.block_references[i + 1]})

\* C29: after fast_calculate_transition_probabilities with normalize set,
\* in every block [block_references[i], block_references[i+1]) and every
\* shell the probabilities sum to 1 when the block's sum before the
\* normalization was not zero and are left as they were when it was zero;
\* with normalize unset no entry is rescaled.
C29_BlocksNormalized ==
    (call.fn = "fast_calculate_transition_probabilities" /\ call.returned) =>
       LET a == call.args[1]
           out == call.result
           Raw(j, k) == a.transition_probability_coef[j]
                           * a.beta_sobolev[a.lines_idx[j]][k]
                           * (IF a.transition_type[j] = 1
                              THEN a.stimulated_emission_factor[a.lines_idx[j]][k]
                                      * a.j_blues[a.lines_idx[j]][k]
                              ELSE 1)
           Same(j, k) == out[j][k][1] = Raw(j, k) * out[j][k][2]
       IN  \A i \in Blocks(a) : \A k \in MacroShells :
              LET rows == {j \in Transitions : a.block_references[i] <= j
                                                 /\ j < a.block_references[i + 1]}
                  sum == FractionSum([j \in Transitions |-> out[j][k]], rows)
              IN  IF ~a.normalize
                  THEN \A j \in rows : Same(j, k)
                  ELSE IF BlockTotal(a, i, k) # 0
                  THEN sum[1] = sum[2]
                  ELSE \A j \in rows : Same(j, k)

\* a normalizing call on blocks of which one had a sum above 1 and one a sum
\* of zero
C29_Witness ==
    /\ call.fn = "fast_calculate_transition_probabilities"
    /\ call.returned
    /\ call.args[1].normalize
    /\ \E i \in 0 .. 1 : \E k \in MacroShells :
          /\ BlockTotal(call.args[1], i, k) > 1
          /\ Cardinality({j \in Transitions :
                             /\ call.args[1].block_references[i] <= j
                             /\ j < call.args[1].block_references[i + 1]
                             /\ call.result[j][k][1] > 0}) = 2
    /\ \E i \in 0 .. 1 : \E k \in MacroShells :
          BlockTotal(call.args[1], i, k) = 0

\* C30: after any sequence of run() calls on one solver, a read of
\* spectrum_integrated returns the spectrum of the formal integrator that
\* the most recent run() made, never a spectrum kept from an earlier run.
C30_SpectrumOfLastRun ==
    spectra.read = "returned" => spectra.spectrum = spectra.runs

====
